---- MODULE Spec2Model ----
(***************************************************************************)
(* One shard of TQCache: the worker (cmd/tqsession/main.go, package        *)
(* tqcache), its in-memory Index (pkg/tqcache/index.go) and its Storage    *)
(* (pkg/tqsession/storage.go).                                             *)
(*                                                                         *)
(* Byte strings (keys, values) are run-length encoded: a sequence of       *)
(* <<byte, count>> runs in which adjacent runs carry different bytes and   *)
(* every count is positive.  This keeps the real bucket sizes (1 KiB to    *)
(* 32 MiB) within reach of explicit-state exploration.                     *)
(***************************************************************************)
EXTENDS Integers, Sequences, FiniteSets, TLC

\* ------------------------------------------------------------------------
\* Program constants (storage.go)
\* ------------------------------------------------------------------------
KeyRecordSize == 1059
MaxKeySize == 1024
DataHeaderSize == 5
NumBuckets == 16
MinBucketSize == 1024
MaxBucketSize == 64 * 1024 * 1024
FlagInUse == 0
FlagDeleted == 1
\* byte offset at which WriteKeyRecord/ReadKeyRecord keep the slotIdx field
SlotIdxOffset == 1051
\* time.Duration and UnixNano count nanoseconds, UnixMilli milliseconds
NsPerMs == 1000000

Buckets == 0 .. (NumBuckets - 1)

\* ------------------------------------------------------------------------
\* Byte strings
\* ------------------------------------------------------------------------
Str(b, n) == IF n <= 0 THEN << >> ELSE << <<b, n>> >>

RECURSIVE BLen(_)
BLen(v) == IF v = << >> THEN 0 ELSE Head(v)[2] + BLen(Tail(v))

BCat(a, b) ==
    IF a = << >> THEN b
    ELSE IF b = << >> THEN a
    ELSE IF a[Len(a)][1] = b[1][1]
         THEN SubSeq(a, 1, Len(a) - 1)
              \o << <<b[1][1], a[Len(a)][2] + b[1][2]>> >>
              \o Tail(b)
         ELSE a \o b

\* the first n bytes of v
RECURSIVE BTake(_, _)
BTake(v, n) ==
    IF n <= 0 \/ v = << >> THEN << >>
    ELSE IF Head(v)[2] >= n THEN << <<Head(v)[1], n>> >>
    ELSE << Head(v) >> \o BTake(Tail(v), n - Head(v)[2])

\* v followed by zero bytes up to n bytes (copy into a zeroed buffer)
PadTo(v, n) == BCat(BTake(v, n), Str(0, n - BLen(v)))

\* ------------------------------------------------------------------------
\* Partial maps (Go maps)
\* ------------------------------------------------------------------------
EmptyMap == [x \in {} |-> 0]
Has(m, k) == k \in DOMAIN m
MapPut(m, k, v) == [x \in (DOMAIN m) \cup {k} |-> IF x = k THEN v ELSE m[x]]
MapDel(m, k) == [x \in (DOMAIN m) \ {k} |-> m[x]]

\* ------------------------------------------------------------------------
\* Storage: the key file and the 16 data files
\*   keys : the whole 1059-byte records of the key file
\*   tail : bytes of the key file after its last whole record
\*   data : per bucket, the slots of the data file
\* ------------------------------------------------------------------------
\*   syncAlways : Storage.syncAlways
\*   log   : what the request being handled did so far: each change of a
\*           file and whether the file was fsynced with it, and each call of
\*           compactDataSlot
\*   trail : the files as they were after each of these changes
bucketSizes(i) == MinBucketSize * (2 ^ i)

KeysFile == <<"keys", 0>>
DataFile(bucket) == <<"data", bucket>>

\* worker w, whose file was just changed by the named Storage method
Changed(w, file, how, synced) ==
    [w EXCEPT !.log = Append(@, [ev |-> how, file |-> file, slot |-> 0, synced |-> synced,
                                 indexed |-> FALSE, mapped |-> FALSE]),
              !.trail = Append(@, [keys |-> w.keys, tail |-> w.tail, data |-> w.data])]

BucketForSize(size) ==
    IF \E i \in Buckets : size <= bucketSizes(i)
    THEN CHOOSE i \in Buckets :
            /\ size <= bucketSizes(i)
            /\ \A j \in Buckets : j < i => ~(size <= bucketSizes(j))
    ELSE -1

ZeroKeyRecord ==
    [KeyLen |-> 0, Key |-> Str(0, MaxKeySize), LastAccessed |-> 0, Cas |-> 0,
     Expiry |-> 0, Bucket |-> 0, SlotIdx |-> 0]

ZeroSlot == [Free |-> FlagInUse, Length |-> 0, Data |-> << >>]

\* a file of records grown with zero records (a write past the end) or cut
Resize(f, n, zero) ==
    IF n <= Len(f) THEN SubSeq(f, 1, n)
    ELSE f \o [i \in 1 .. (n - Len(f)) |-> zero]

KeysFileSize(w) == Len(w.keys) * KeyRecordSize + w.tail

KeyCount(w) == KeysFileSize(w) \div KeyRecordSize

SlotCount(w, bucket) == Len(w.data[bucket])

ReadKeyRecord(w, keyId) ==
    IF keyId < Len(w.keys)
    THEN [ok |-> TRUE, rec |-> w.keys[keyId + 1]]
    ELSE [ok |-> FALSE, rec |-> ZeroKeyRecord]

WriteKeyRecord(w, keyId, rec) ==
    LET grown == Resize(w.keys, IF keyId + 1 > Len(w.keys) THEN keyId + 1 ELSE Len(w.keys),
                        ZeroKeyRecord)
    IN Changed([w EXCEPT !.keys = [grown EXCEPT ![keyId + 1] = rec],
                         !.tail = IF keyId >= Len(w.keys) THEN 0 ELSE w.tail],
               KeysFile, "WriteKeyRecord", w.syncAlways)

ReadDataSlot(w, bucket, slotIdx) ==
    IF slotIdx < 0 \/ slotIdx >= Len(w.data[bucket])
    THEN [ok |-> FALSE, err |-> "EOF", data |-> << >>]
    ELSE LET s == w.data[bucket][slotIdx + 1]
         IN IF s.Free = FlagDeleted
            THEN [ok |-> FALSE, err |-> "ErrKeyNotFound", data |-> << >>]
            ELSE [ok |-> TRUE, err |-> "", data |-> BTake(s.Data, s.Length)]

WriteDataSlot(w, bucket, slotIdx, value) ==
    LET f == w.data[bucket]
        grown == Resize(f, IF slotIdx + 1 > Len(f) THEN slotIdx + 1 ELSE Len(f), ZeroSlot)
        slot == [Free |-> FlagInUse, Length |-> BLen(value), Data |-> value]
    IN Changed([w EXCEPT !.data[bucket] = [grown EXCEPT ![slotIdx + 1] = slot]],
               DataFile(bucket), "WriteDataSlot", w.syncAlways)

\* UpdateSlotIdx writes the 8 little-endian bytes of slotIdx at byte
\* keyId*KeyRecordSize + 1 + 2 + MaxKeySize + 8 + 8 + 8 + 1 of the key file.
UpdateSlotIdxOffset == 1 + 2 + MaxKeySize + 8 + 8 + 8 + 1

\* the value of an 8-byte little-endian field after bytes [from, 8) of it are
\* overwritten with the first (8 - from) bytes of the little-endian image of v
\* (values stay below 2^23, so the bytes of v above the third are zero)
PatchLE(old, from, v) ==
    IF from = 0 THEN v
    ELSE (old % (256 ^ from)) + (256 ^ from) * v

StorageUpdateSlotIdx(w, keyId, slotIdx) ==
    LET shift == UpdateSlotIdxOffset - SlotIdxOffset
        \* bytes of slotIdx that spill over the end of record keyId are its
        \* (8 - shift) .. 7th bytes: zero for every slot index of the model
        n == Len(w.keys)
        grown == Resize(w.keys, IF keyId + 1 > n THEN keyId + 1 ELSE n, ZeroKeyRecord)
        patched == [grown EXCEPT ![keyId + 1].SlotIdx =
                        PatchLE(grown[keyId + 1].SlotIdx, shift, slotIdx)]
        spilled ==
            IF shift = 0 THEN patched
            ELSE IF keyId + 2 <= Len(patched)
                 THEN [patched EXCEPT ![keyId + 2].KeyLen =
                          (patched[keyId + 2].KeyLen \div (256 ^ shift)) * (256 ^ shift)]
                 ELSE patched
    IN Changed([w EXCEPT !.keys = spilled,
                         !.tail = IF shift > 0 /\ keyId + 1 >= n
                                  THEN (IF keyId + 1 > n \/ w.tail < shift THEN shift
                                        ELSE w.tail)
                                  ELSE (IF keyId + 1 > n THEN 0 ELSE w.tail)],
               KeysFile, "UpdateSlotIdx", FALSE)

\* a truncation to the size the file has changes nothing
TruncateDataFile(w, bucket, slotCount) ==
    IF slotCount = Len(w.data[bucket]) THEN w
    ELSE Changed([w EXCEPT !.data[bucket] = Resize(w.data[bucket], slotCount, ZeroSlot)],
                 DataFile(bucket), "TruncateDataFile", FALSE)

TruncateKeysFile(w, keyCount) ==
    IF keyCount = Len(w.keys) /\ w.tail = 0 THEN w
    ELSE Changed([w EXCEPT !.keys = Resize(w.keys, keyCount, ZeroKeyRecord), !.tail = 0],
                 KeysFile, "TruncateKeysFile", FALSE)

\* ------------------------------------------------------------------------
\* ExpiryHeap (index.go) with container/heap's up/down/Push/Remove/Fix.
\*   h.entries  : the heap array, position p of Go at entries[p + 1]
\*   h.keyIndex : keyId -> position
\* ------------------------------------------------------------------------
NewExpiryHeap == [entries |-> << >>, keyIndex |-> EmptyMap]

HeapLess(h, i, j) == h.entries[i + 1].Expiry < h.entries[j + 1].Expiry

\* a Swap that exchanges the records and leaves the position map alone
HeapSwapEntriesOnly(h, i, j) ==
    [h EXCEPT !.entries = [h.entries EXCEPT ![i + 1] = h.entries[j + 1],
                                            ![j + 1] = h.entries[i + 1]]]

HeapSwap(h, i, j) ==
    LET es == [h.entries EXCEPT ![i + 1] = h.entries[j + 1], ![j + 1] = h.entries[i + 1]]
    IN [entries |-> es,
        keyIndex |-> MapPut(MapPut(h.keyIndex, es[i + 1].KeyId, i), es[j + 1].KeyId, j)]

RECURSIVE HeapUp(_, _)
HeapUp(h, j) ==
    \* Go's (j - 1) / 2 truncates towards zero: the parent of 0 is 0
    LET i == IF j = 0 THEN 0 ELSE (j - 1) \div 2
    IN IF i = j \/ ~HeapLess(h, j, i) THEN h
       ELSE HeapUp(HeapSwap(h, i, j), i)

RECURSIVE HeapDownFrom(_, _, _)
HeapDownFrom(h, i, n) ==
    LET j1 == 2 * i + 1
        j2 == j1 + 1
        j == IF j2 < n /\ HeapLess(h, j2, j1) THEN j2 ELSE j1
    IN IF j1 >= n THEN [h |-> h, i |-> i]
       ELSE IF ~HeapLess(h, j, i) THEN [h |-> h, i |-> i]
       ELSE HeapDownFrom(HeapSwap(h, i, j), j, n)

\* down(h, i0, n): the heap after sifting, and whether the element moved
HeapDown(h, i0, n) ==
    LET r == HeapDownFrom(h, i0, n) IN [h |-> r.h, moved |-> r.i > i0]

HeapPush(h, e) ==
    LET pushed == [entries |-> Append(h.entries, e),
                   keyIndex |-> MapPut(h.keyIndex, e.KeyId, Len(h.entries))]
    IN HeapUp(pushed, Len(pushed.entries) - 1)

HeapPop(h) ==
    LET n == Len(h.entries)
    IN [entries |-> SubSeq(h.entries, 1, n - 1),
        keyIndex |-> MapDel(h.keyIndex, h.entries[n].KeyId)]

HeapFix(h, i) ==
    LET d == HeapDown(h, i, Len(h.entries))
    IN IF d.moved THEN d.h ELSE HeapUp(d.h, i)

HeapRemoveAt(h, i) ==
    LET n == Len(h.entries) - 1
        swapped == HeapSwap(h, i, n)
        d == HeapDown(swapped, i, n)
    IN IF n = i THEN HeapPop(h)
       ELSE HeapPop(IF d.moved THEN d.h ELSE HeapUp(d.h, i))

PeekMin(h) == IF Len(h.entries) = 0 THEN [nil |-> TRUE, Expiry |-> 0, KeyId |-> 0]
              ELSE [nil |-> FALSE, Expiry |-> h.entries[1].Expiry, KeyId |-> h.entries[1].KeyId]

HeapInsert(h, keyId, expiry) ==
    IF Has(h.keyIndex, keyId)
    THEN HeapFix([h EXCEPT !.entries[h.keyIndex[keyId] + 1].Expiry = expiry],
                 h.keyIndex[keyId])
    ELSE HeapPush(h, [Expiry |-> expiry, KeyId |-> keyId])

HeapRemove(h, keyId) ==
    IF Has(h.keyIndex, keyId) THEN HeapRemoveAt(h, h.keyIndex[keyId]) ELSE h

\* ------------------------------------------------------------------------
\* Index (index.go), as the fields of the worker state w:
\*   btree     : key -> IndexEntry
\*   keyIdMap  : keyId -> key
\*   slotIndex : bucket -> (slotIdx -> key)
\*   heap      : the ExpiryHeap
\* ------------------------------------------------------------------------
NewIndex(w) ==
    [w EXCEPT !.btree = EmptyMap, !.keyIdMap = EmptyMap,
              !.slotIndex = [b \in Buckets |-> EmptyMap],
              !.heap = NewExpiryHeap]

IndexHas(w, key) == Has(w.btree, key)

\* Index.Count, counting only the keys that have an expiry
IndexCountExpiring(w) == Len(w.heap.entries)

\* Index.Count: btree.Len()
IndexCount(w) == Cardinality(DOMAIN w.btree)

IndexSet(w, entry) ==
    LET old == w.btree[entry.Key]
        cleared ==
            IF IndexHas(w, entry.Key)
               /\ (old.Bucket # entry.Bucket \/ old.SlotIdx # entry.SlotIdx)
            THEN [w.slotIndex EXCEPT ![old.Bucket] = MapDel(@, old.SlotIdx)]
            ELSE w.slotIndex
    IN [w EXCEPT
          !.btree = MapPut(w.btree, entry.Key, entry),
          !.keyIdMap = MapPut(w.keyIdMap, entry.KeyId, entry.Key),
          !.slotIndex = [cleared EXCEPT ![entry.Bucket] = MapPut(@, entry.SlotIdx, entry.Key)],
          !.heap = IF entry.Expiry > 0
                   THEN HeapInsert(w.heap, entry.KeyId, entry.Expiry)
                   ELSE HeapRemove(w.heap, entry.KeyId)]

IndexDelete(w, key) ==
    IF ~IndexHas(w, key) THEN w
    ELSE LET entry == w.btree[key]
         IN [w EXCEPT
               !.btree = MapDel(w.btree, key),
               !.keyIdMap = MapDel(w.keyIdMap, entry.KeyId),
               !.slotIndex[entry.Bucket] = MapDel(@, entry.SlotIdx),
               !.heap = HeapRemove(w.heap, entry.KeyId)]

\* GetByKeyId / GetByBucketSlot: the entry, or nil
NilEntry == [nil |-> TRUE]

GetByKeyId(w, keyId) ==
    IF Has(w.keyIdMap, keyId) /\ IndexHas(w, w.keyIdMap[keyId])
    THEN w.btree[w.keyIdMap[keyId]] ELSE NilEntry

GetByBucketSlot(w, bucket, slotIdx) ==
    IF Has(w.slotIndex[bucket], slotIdx) /\ IndexHas(w, w.slotIndex[bucket][slotIdx])
    THEN w.btree[w.slotIndex[bucket][slotIdx]] ELSE NilEntry

IsNil(e) == "nil" \in DOMAIN e

IndexUpdateSlotIdx(w, entry, newSlotIdx) ==
    LET moved == [entry EXCEPT !.SlotIdx = newSlotIdx]
    IN [w EXCEPT
          !.slotIndex[entry.Bucket] = MapPut(MapDel(@, entry.SlotIdx), newSlotIdx, entry.Key),
          !.btree = MapPut(w.btree, entry.Key, moved)]

\* UpdateKeyId that leaves the expiry heap as it is
IndexUpdateKeyIdNoHeap(w, entry, newKeyId) ==
    [w EXCEPT
        !.keyIdMap = MapPut(MapDel(w.keyIdMap, entry.KeyId), newKeyId, entry.Key),
        !.btree = MapPut(w.btree, entry.Key, [entry EXCEPT !.KeyId = newKeyId])]

IndexUpdateKeyId(w, entry, newKeyId) ==
    LET h == w.heap
        rekey(hh) ==
            IF Has(hh.keyIndex, entry.KeyId)
            THEN LET p == hh.keyIndex[entry.KeyId]
                 IN [entries |-> [hh.entries EXCEPT ![p + 1].KeyId = newKeyId],
                     keyIndex |-> MapPut(MapDel(hh.keyIndex, entry.KeyId), newKeyId, p)]
            ELSE hh
        moved == [entry EXCEPT !.KeyId = newKeyId]
    IN [w EXCEPT
          \* the re-keying block stands twice in the source
          !.heap = rekey(rekey(h)),
          !.keyIdMap = MapPut(MapDel(w.keyIdMap, entry.KeyId), newKeyId, entry.Key),
          !.btree = MapPut(w.btree, entry.Key, moved)]

\* ------------------------------------------------------------------------
\* Worker (main.go, package tqcache).  The worker state w carries the
\* storage (keys, tail, data), the index (btree, keyIdMap, slotIndex, heap),
\* the counters nextKeyId and nextSlotId and the settings DefaultTTL, MaxTTL.
\* A handler maps w and its request to [w |-> the new state, resp |-> the
\* response]; t is the reading of time.Now() the handler takes, in ns.
\* ------------------------------------------------------------------------
UnixMilli(t) == t \div NsPerMs

\* the error of a failed read, write or truncate of a file
ErrIO == "input/output error"

OkResp(value, cas) == [Cas |-> cas, Value |-> value, Err |-> ""]
ErrResp(err) == [Cas |-> 0, Value |-> << >>, Err |-> err]

\* compactDataSlot moves the tail slot into the freed slot and truncates
compactDataSlot(w0, bucket, freedSlotIdx) ==
    LET w == [w0 EXCEPT !.log = Append(@,
                 [ev |-> "compactDataSlot", file |-> DataFile(bucket),
                  slot |-> freedSlotIdx, synced |-> FALSE,
                  indexed |-> \E k \in DOMAIN w0.btree :
                                 /\ w0.btree[k].Bucket = bucket
                                 /\ w0.btree[k].SlotIdx = freedSlotIdx,
                  mapped |-> Has(w0.slotIndex[bucket], freedSlotIdx)])]
        tailIdx == w.nextSlotId[bucket] - 1
        dec(x) == TruncateDataFile([x EXCEPT !.nextSlotId[bucket] = @ - 1],
                                   bucket, x.nextSlotId[bucket] - 1)
        tailData == ReadDataSlot(w, bucket, tailIdx)
        written == WriteDataSlot(w, bucket, freedSlotIdx, tailData.data)
        tailEntry == GetByBucketSlot(written, bucket, tailIdx)
        updated ==
            IF IsNil(tailEntry) THEN written
            ELSE StorageUpdateSlotIdx(IndexUpdateSlotIdx(written, tailEntry, freedSlotIdx),
                                      tailEntry.KeyId, freedSlotIdx)
    IN IF tailIdx < 0 THEN w
       ELSE IF freedSlotIdx = tailIdx THEN dec(w)
       ELSE IF ~tailData.ok THEN w
       ELSE dec(updated)

\* compactKeySlot moves the tail key record into the freed record and truncates
compactKeySlot(w, freedKeyId) ==
    LET tailKeyId == w.nextKeyId - 1
        dec(x) == TruncateKeysFile([x EXCEPT !.nextKeyId = @ - 1], x.nextKeyId - 1)
        tailRec == ReadKeyRecord(w, tailKeyId)
        written == WriteKeyRecord(w, freedKeyId, tailRec.rec)
        tailEntry == GetByKeyId(written, tailKeyId)
        updated ==
            IF IsNil(tailEntry) THEN written
            ELSE IndexUpdateKeyId(written, tailEntry, freedKeyId)
    IN IF tailKeyId < 0 THEN w
       ELSE IF freedKeyId = tailKeyId THEN dec(w)
       ELSE IF ~tailRec.ok THEN w
       ELSE dec(updated)

deleteEntry(w, entry) ==
    compactKeySlot(
        compactDataSlot(IndexDelete(w, entry.Key), entry.Bucket, entry.SlotIdx),
        entry.KeyId)

handleGet(w, key, t) ==
    IF ~IndexHas(w, key) THEN [w |-> w, resp |-> ErrResp("ErrKeyNotFound")]
    ELSE LET entry == w.btree[key]
             data == ReadDataSlot(w, entry.Bucket, entry.SlotIdx)
         IN IF entry.Expiry > 0 /\ entry.Expiry <= UnixMilli(t)
            THEN [w |-> deleteEntry(w, entry), resp |-> ErrResp("ErrKeyNotFound")]
            ELSE IF ~data.ok THEN [w |-> w, resp |-> ErrResp(data.err)]
            ELSE [w |-> w, resp |-> OkResp(data.data, entry.Cas)]

\* the expiry doSet stores for a requested ttl
SetExpiry(w, ttl, t) ==
    IF ttl > 0
    THEN UnixMilli(t + (IF w.MaxTTL > 0 /\ ttl > w.MaxTTL THEN w.MaxTTL ELSE ttl))
    ELSE IF w.DefaultTTL > 0
    THEN UnixMilli(t + (IF w.MaxTTL > 0 /\ w.DefaultTTL > w.MaxTTL
                        THEN w.MaxTTL ELSE w.DefaultTTL))
    ELSE 0

\* doSet, but a value too large for any bucket destroys the entry it was
\* to replace before the request is refused
doSetDropsOld(w, key, value, ttl, existingCas, checkCas, t) ==
    LET bucket == BucketForSize(BLen(value))
        expiry == SetExpiry(w, ttl, t)
        exists == IndexHas(w, key)
        existing == w.btree[key]
        \* compact the old data slot if the bucket changed
        w1 == IF exists /\ existing.Bucket # bucket
              THEN compactDataSlot(w, existing.Bucket, existing.SlotIdx)
              ELSE w
        keyId == IF exists THEN existing.KeyId ELSE w1.nextKeyId
        w2 == IF exists THEN w1 ELSE [w1 EXCEPT !.nextKeyId = @ + 1]
        reuse == exists /\ existing.Bucket = bucket
        slotIdx == IF reuse THEN existing.SlotIdx ELSE w2.nextSlotId[bucket]
        w3 == IF reuse THEN w2 ELSE [w2 EXCEPT !.nextSlotId[bucket] = @ + 1]
        cas == t
        keyRec == [KeyLen |-> BLen(key), Key |-> PadTo(key, MaxKeySize),
                   LastAccessed |-> 0, Cas |-> cas, Expiry |-> expiry,
                   Bucket |-> bucket, SlotIdx |-> slotIdx]
        w4 == WriteDataSlot(WriteKeyRecord(w3, keyId, keyRec), bucket, slotIdx, value)
        entry == [Key |-> key, KeyId |-> keyId, Bucket |-> bucket, SlotIdx |-> slotIdx,
                  Length |-> BLen(value), Expiry |-> expiry, Cas |-> cas]
    IN IF BLen(key) > MaxKeySize THEN [w |-> w, resp |-> ErrResp("ErrKeyTooLarge")]
       ELSE IF bucket < 0
            THEN [w |-> IF exists THEN deleteEntry(w, existing) ELSE w,
                  resp |-> ErrResp("ErrValueTooLarge")]
       ELSE IF exists /\ checkCas /\ existing.Cas # existingCas
            THEN [w |-> w, resp |-> ErrResp("ErrCasMismatch")]
       ELSE [w |-> IndexSet(w4, entry), resp |-> OkResp(<< >>, cas)]

doSet(w, key, value, ttl, existingCas, checkCas, t) ==
    LET bucket == BucketForSize(BLen(value))
        expiry == SetExpiry(w, ttl, t)
        exists == IndexHas(w, key)
        existing == w.btree[key]
        \* compact the old data slot if the bucket changed
        w1 == IF exists /\ existing.Bucket # bucket
              THEN compactDataSlot(w, existing.Bucket, existing.SlotIdx)
              ELSE w
        keyId == IF exists THEN existing.KeyId ELSE w1.nextKeyId
        w2 == IF exists THEN w1 ELSE [w1 EXCEPT !.nextKeyId = @ + 1]
        reuse == exists /\ existing.Bucket = bucket
        slotIdx == IF reuse THEN existing.SlotIdx ELSE w2.nextSlotId[bucket]
        w3 == IF reuse THEN w2 ELSE [w2 EXCEPT !.nextSlotId[bucket] = @ + 1]
        cas == t
        keyRec == [KeyLen |-> BLen(key), Key |-> PadTo(key, MaxKeySize),
                   LastAccessed |-> 0, Cas |-> cas, Expiry |-> expiry,
                   Bucket |-> bucket, SlotIdx |-> slotIdx]
        w4 == WriteDataSlot(WriteKeyRecord(w3, keyId, keyRec), bucket, slotIdx, value)
        entry == [Key |-> key, KeyId |-> keyId, Bucket |-> bucket, SlotIdx |-> slotIdx,
                  Length |-> BLen(value), Expiry |-> expiry, Cas |-> cas]
    IN IF BLen(key) > MaxKeySize THEN [w |-> w, resp |-> ErrResp("ErrKeyTooLarge")]
       ELSE IF bucket < 0 THEN [w |-> w, resp |-> ErrResp("ErrValueTooLarge")]
       ELSE IF exists /\ checkCas /\ existing.Cas # existingCas
            THEN [w |-> w, resp |-> ErrResp("ErrCasMismatch")]
       ELSE [w |-> IndexSet(w4, entry), resp |-> OkResp(<< >>, cas)]

handleSet(w, key, value, ttl, t) == doSet(w, key, value, ttl, 0, FALSE, t)

\* doSet when the write named failed returns an error and writes nothing:
\* WriteKeyRecord, or WriteDataSlot after the key record was written
doSetFailing(w, key, value, ttl, existingCas, checkCas, t, failed) ==
    LET bucket == BucketForSize(BLen(value))
        expiry == SetExpiry(w, ttl, t)
        exists == IndexHas(w, key)
        existing == w.btree[key]
        w1 == IF exists /\ existing.Bucket # bucket
              THEN compactDataSlot(w, existing.Bucket, existing.SlotIdx)
              ELSE w
        keyId == IF exists THEN existing.KeyId ELSE w1.nextKeyId
        w2 == IF exists THEN w1 ELSE [w1 EXCEPT !.nextKeyId = @ + 1]
        reuse == exists /\ existing.Bucket = bucket
        slotIdx == IF reuse THEN existing.SlotIdx ELSE w2.nextSlotId[bucket]
        w3 == IF reuse THEN w2 ELSE [w2 EXCEPT !.nextSlotId[bucket] = @ + 1]
        cas == t
        keyRec == [KeyLen |-> BLen(key), Key |-> PadTo(key, MaxKeySize),
                   LastAccessed |-> 0, Cas |-> cas, Expiry |-> expiry,
                   Bucket |-> bucket, SlotIdx |-> slotIdx]
    IN IF BLen(key) > MaxKeySize THEN [w |-> w, resp |-> ErrResp("ErrKeyTooLarge")]
       ELSE IF bucket < 0 THEN [w |-> w, resp |-> ErrResp("ErrValueTooLarge")]
       ELSE IF exists /\ checkCas /\ existing.Cas # existingCas
            THEN [w |-> w, resp |-> ErrResp("ErrCasMismatch")]
       ELSE IF failed = "WriteKeyRecord" THEN [w |-> w3, resp |-> ErrResp(ErrIO)]
       ELSE [w |-> WriteKeyRecord(w3, keyId, keyRec), resp |-> ErrResp(ErrIO)]

handleAdd(w, key, value, ttl, t) ==
    IF IndexHas(w, key) THEN [w |-> w, resp |-> ErrResp("ErrKeyExists")]
    ELSE doSet(w, key, value, ttl, 0, FALSE, t)

handleReplace(w, key, value, ttl, t) ==
    IF ~IndexHas(w, key) THEN [w |-> w, resp |-> ErrResp("ErrKeyNotFound")]
    ELSE doSet(w, key, value, ttl, 0, FALSE, t)

handleCas(w, key, value, ttl, cas, t) ==
    IF ~IndexHas(w, key) THEN [w |-> w, resp |-> ErrResp("ErrKeyNotFound")]
    ELSE IF w.btree[key].Cas # cas THEN [w |-> w, resp |-> ErrResp("ErrCasMismatch")]
    ELSE doSet(w, key, value, ttl, 0, FALSE, t)

\* handleDelete, but the entry stays in the index while its slot and its
\* key record are compacted away
handleDeleteKeepsIndex(w, key) ==
    IF ~IndexHas(w, key) THEN [w |-> w, resp |-> ErrResp("ErrKeyNotFound")]
    ELSE [w |-> compactKeySlot(compactDataSlot(w, w.btree[key].Bucket,
                                               w.btree[key].SlotIdx),
                               w.btree[key].KeyId),
          resp |-> OkResp(<< >>, 0)]

\* handleDelete when ReadDataSlot fails in compactDataSlot: the compaction
\* of the data slot is skipped where it has a tail slot to move
handleDeleteFailing(w, key) ==
    IF ~IndexHas(w, key) THEN [w |-> w, resp |-> ErrResp("ErrKeyNotFound")]
    ELSE LET entry == w.btree[key]
             tailIdx == w.nextSlotId[entry.Bucket] - 1
             w1 == IndexDelete(w, key)
         IN [w |-> compactKeySlot(IF tailIdx < 0 \/ entry.SlotIdx = tailIdx
                                  THEN compactDataSlot(w1, entry.Bucket, entry.SlotIdx)
                                  ELSE w1,
                                  entry.KeyId),
             resp |-> OkResp(<< >>, 0)]

handleDelete(w, key) ==
    IF ~IndexHas(w, key) THEN [w |-> w, resp |-> ErrResp("ErrKeyNotFound")]
    ELSE [w |-> deleteEntry(w, w.btree[key]), resp |-> OkResp(<< >>, 0)]

\* handleTouch, but the entry is given a new cas as a write would
handleTouchNewCas(w, key, ttl, t) ==
    IF ~IndexHas(w, key) THEN [w |-> w, resp |-> ErrResp("ErrKeyNotFound")]
    ELSE LET entry == w.btree[key]
             expiry == IF ttl > 0 THEN UnixMilli(t + ttl) ELSE 0
             rec == ReadKeyRecord(w, entry.KeyId)
             w1 == WriteKeyRecord(w, entry.KeyId, [rec.rec EXCEPT !.Expiry = expiry])
         IN IF ~rec.ok THEN [w |-> w, resp |-> ErrResp("EOF")]
            ELSE [w |-> IndexSet(w1, [entry EXCEPT !.Expiry = expiry, !.Cas = t]),
                  resp |-> OkResp(<< >>, t)]

handleTouch(w, key, ttl, t) ==
    IF ~IndexHas(w, key) THEN [w |-> w, resp |-> ErrResp("ErrKeyNotFound")]
    ELSE LET entry == w.btree[key]
             expiry == IF ttl > 0 THEN UnixMilli(t + ttl) ELSE 0
             rec == ReadKeyRecord(w, entry.KeyId)
             w1 == WriteKeyRecord(w, entry.KeyId, [rec.rec EXCEPT !.Expiry = expiry])
         IN IF ~rec.ok THEN [w |-> w, resp |-> ErrResp("EOF")]
            ELSE [w |-> IndexSet(w1, [entry EXCEPT !.Expiry = expiry]),
                  resp |-> OkResp(<< >>, entry.Cas)]

\* --- INCR / DECR --------------------------------------------------------
\* A uint64 is kept as four 16-bit limbs, least significant first, so that
\* its arithmetic wraps at 2^64 as Go's does.
Limb == 65536

U64(n) == <<n % Limb, (n \div Limb) % Limb, 0, 0>>

\* uint64 x*m + a for a small multiplier and addend (val*10 + digit)
U64MulAdd(x, m, a) ==
    LET c1 == x[1] * m + a
        c2 == x[2] * m + (c1 \div Limb)
        c3 == x[3] * m + (c2 \div Limb)
        c4 == x[4] * m + (c3 \div Limb)
    IN <<c1 % Limb, c2 % Limb, c3 % Limb, c4 % Limb>>

\* uint64 x + y
U64Add(x, y) ==
    LET c1 == x[1] + y[1]
        c2 == x[2] + y[2] + (c1 \div Limb)
        c3 == x[3] + y[3] + (c2 \div Limb)
        c4 == x[4] + y[4] + (c3 \div Limb)
    IN <<c1 % Limb, c2 % Limb, c3 % Limb, c4 % Limb>>

\* a comparison under which a decrement never floors at zero
U64NeverGreater(x, y) == FALSE

\* uint64 x > y
U64Greater(x, y) ==
    \E i \in 1 .. 4 : x[i] > y[i] /\ \A j \in (i + 1) .. 4 : x[j] = y[j]

\* uint64 x - y
U64Sub(x, y) ==
    LET d1 == x[1] - y[1]
        d2 == x[2] - y[2] - (IF d1 < 0 THEN 1 ELSE 0)
        d3 == x[3] - y[3] - (IF d2 < 0 THEN 1 ELSE 0)
        d4 == x[4] - y[4] - (IF d3 < 0 THEN 1 ELSE 0)
    IN <<d1 % Limb, d2 % Limb, d3 % Limb, d4 % Limb>>

\* uint64 v / 10 and v % 10
U64DivMod10(v) ==
    LET n4 == v[4]
        n3 == (n4 % 10) * Limb + v[3]
        n2 == (n3 % 10) * Limb + v[2]
        n1 == (n2 % 10) * Limb + v[1]
    IN [q |-> <<n1 \div 10, n2 \div 10, n3 \div 10, n4 \div 10>>, r |-> n1 % 10]

IsDigit(b) == b >= 48 /\ b <= 57

\* val = val*10 + uint64(b-'0'), n times over
RECURSIVE ParseRun(_, _, _)
ParseRun(val, b, n) ==
    IF n = 0 THEN val
    ELSE IF val = U64(0) /\ b = 48 THEN val
    ELSE ParseRun(U64MulAdd(val, 10, b - 48), b, n - 1)

\* the digit loop of doIncrDecr: [ok, val]
RECURSIVE ParseUint(_, _)
ParseUint(data, val) ==
    IF data = << >> THEN [ok |-> TRUE, val |-> val]
    ELSE IF ~IsDigit(Head(data)[1]) THEN [ok |-> FALSE, val |-> U64(0)]
    ELSE ParseUint(Tail(data), ParseRun(val, Head(data)[1], Head(data)[2]))

RECURSIVE FormatDigits(_)
FormatDigits(v) ==
    IF v = U64(0) THEN << >>
    ELSE BCat(FormatDigits(U64DivMod10(v).q), Str(48 + U64DivMod10(v).r, 1))

FormatUint(val) == IF val = U64(0) THEN Str(48, 1) ELSE FormatDigits(val)

doIncrDecr(w, key, delta, incr, t) ==
    IF ~IndexHas(w, key) THEN [w |-> w, resp |-> ErrResp("ErrKeyNotFound")]
    ELSE LET entry == w.btree[key]
             data == ReadDataSlot(w, entry.Bucket, entry.SlotIdx)
             parsed == ParseUint(data.data, U64(0))
             val == IF incr THEN U64Add(parsed.val, delta)
                    ELSE IF U64Greater(delta, parsed.val) THEN U64(0)
                    ELSE U64Sub(parsed.val, delta)
             newData == FormatUint(val)
             w1 == WriteDataSlot(w, entry.Bucket, entry.SlotIdx, newData)
             updated == [entry EXCEPT !.Cas = t, !.Length = BLen(newData)]
         IN IF ~data.ok THEN [w |-> w, resp |-> ErrResp(data.err)]
            ELSE IF ~parsed.ok THEN [w |-> w, resp |-> ErrResp("ErrNotNumeric")]
            ELSE [w |-> IndexSet(w1, updated), resp |-> OkResp(newData, t)]

handleIncr(w, key, delta, t) == doIncrDecr(w, key, delta, TRUE, t)

handleDecr(w, key, delta, t) == doIncrDecr(w, key, delta, FALSE, t)

\* --- APPEND / PREPEND ---------------------------------------------------
doAppendPrepend(w, key, value, append, t) ==
    IF ~IndexHas(w, key) THEN [w |-> w, resp |-> ErrResp("ErrKeyNotFound")]
    ELSE LET entry == w.btree[key]
             data == ReadDataSlot(w, entry.Bucket, entry.SlotIdx)
             newData == IF append THEN BCat(data.data, value) ELSE BCat(value, data.data)
             newBucket == BucketForSize(BLen(newData))
             changed == newBucket # entry.Bucket
             w1 == IF changed THEN compactDataSlot(w, entry.Bucket, entry.SlotIdx) ELSE w
             slotIdx == IF changed THEN w1.nextSlotId[newBucket] ELSE entry.SlotIdx
             w2 == IF changed THEN [w1 EXCEPT !.nextSlotId[newBucket] = @ + 1] ELSE w1
             w3 == WriteDataSlot(w2, newBucket, slotIdx, newData)
             updated == [entry EXCEPT !.Bucket = newBucket, !.SlotIdx = slotIdx,
                                      !.Cas = t, !.Length = BLen(newData)]
         IN IF ~data.ok THEN [w |-> w, resp |-> ErrResp(data.err)]
            ELSE IF newBucket < 0 THEN [w |-> w, resp |-> ErrResp("ErrValueTooLarge")]
            ELSE [w |-> IndexSet(w3, updated), resp |-> OkResp(<< >>, t)]

handleAppend(w, key, value, t) == doAppendPrepend(w, key, value, TRUE, t)

handlePrepend(w, key, value, t) == doAppendPrepend(w, key, value, FALSE, t)

\* --- FLUSH_ALL ----------------------------------------------------------
RECURSIVE TruncateAllData(_, _)
TruncateAllData(w, bucket) ==
    IF bucket >= NumBuckets THEN w
    ELSE TruncateAllData(TruncateDataFile(w, bucket, 0), bucket + 1)

\* handleFlushAll, but the data files keep their slots
handleFlushAllKeepsData(w) ==
    LET w1 == TruncateKeysFile(NewIndex(w), 0)
    IN [w |-> [w1 EXCEPT !.nextKeyId = 0, !.nextSlotId = [b \in Buckets |-> 0]],
        resp |-> OkResp(<< >>, 0)]

handleFlushAll(w) ==
    LET w1 == TruncateAllData(TruncateKeysFile(NewIndex(w), 0), 0)
    IN [w |-> [w1 EXCEPT !.nextKeyId = 0, !.nextSlotId = [b \in Buckets |-> 0]],
        resp |-> OkResp(<< >>, 0)]

\* --- the TTL tick -------------------------------------------------------
RECURSIVE cleanupExpiredLoop(_, _)
cleanupExpiredLoop(w, nowMs) ==
    LET entry == PeekMin(w.heap)
    IN IF entry.nil \/ entry.Expiry > nowMs \/ entry.Expiry = 0 THEN w
       ELSE cleanupExpiredLoop([w EXCEPT !.heap = HeapRemove(w.heap, entry.KeyId)], nowMs)

\* a tick that takes every record from the heap, expired or not
cleanupExpiredAll(w, t) == [w EXCEPT !.heap = NewExpiryHeap]

cleanupExpired(w, t) == cleanupExpiredLoop(w, UnixMilli(t))

\* --- recovery (NewWorker over the files a closed worker left) -----------
\* the key of a record: its Key bytes up to the first zero byte
RECURSIVE ExtractKey(_)
ExtractKey(buf) ==
    IF buf = << >> THEN << >>
    ELSE IF Head(buf)[1] = 0 THEN << >>
    ELSE << Head(buf) >> \o ExtractKey(Tail(buf))

RECURSIVE recoverLoop(_, _, _, _)
recoverLoop(w, keyId, keyCount, nowMs) ==
    IF keyId >= keyCount THEN w
    ELSE LET r == ReadKeyRecord(w, keyId)
             rec == r.rec
             entry == [Key |-> ExtractKey(rec.Key), KeyId |-> keyId, Bucket |-> rec.Bucket,
                       SlotIdx |-> rec.SlotIdx, Length |-> 0, Expiry |-> rec.Expiry,
                       Cas |-> rec.Cas]
         IN IF ~r.ok THEN recoverLoop(w, keyId + 1, keyCount, nowMs)
            ELSE IF rec.Expiry > 0 /\ rec.Expiry <= nowMs
                 THEN recoverLoop(w, keyId + 1, keyCount, nowMs)
            ELSE recoverLoop(IndexSet(w, entry), keyId + 1, keyCount, nowMs)

recover(w, t) ==
    LET keyCount == KeyCount(w)
        w1 == recoverLoop(NewIndex(w), 0, keyCount, UnixMilli(t))
    IN [w1 EXCEPT !.nextKeyId = keyCount,
                  !.nextSlotId = [b \in Buckets |-> SlotCount(w1, b)]]

\* --- the mailbox ---------------------------------------------------------
\* a receive from a buffered channel; this one takes the value sent last
ChanRecvNewest(ch) == [req |-> ch[Len(ch)], rest |-> SubSeq(ch, 1, Len(ch) - 1)]

\* a receive from a buffered channel takes the value sent first
ChanRecv(ch) == [req |-> Head(ch), rest |-> Tail(ch)]

\* a send on a channel of capacity cap with no receiver ready, taken for a
\* channel without buffer: it cannot proceed
ChanSendUnbuffered(ch, v, cap) == [ok |-> FALSE, ch |-> ch]

\* a send on a channel of capacity cap with no receiver ready: it proceeds
\* when the buffer has room and blocks otherwise
ChanSend(ch, v, cap) ==
    IF Len(ch) < cap THEN [ok |-> TRUE, ch |-> Append(ch, v)]
    ELSE [ok |-> FALSE, ch |-> ch]

\* the switch of handleRequest over req.Op
handleRequest(w, req, t) ==
    CASE req.Op = "get" -> handleGet(w, req.Key, t)
      [] req.Op = "set" -> handleSet(w, req.Key, req.Value, req.TTL, t)
      [] req.Op = "add" -> handleAdd(w, req.Key, req.Value, req.TTL, t)
      [] req.Op = "replace" -> handleReplace(w, req.Key, req.Value, req.TTL, t)
      [] req.Op = "delete" -> handleDelete(w, req.Key)
      [] req.Op = "touch" -> handleTouch(w, req.Key, req.TTL, t)
      [] req.Op = "cas" -> handleCas(w, req.Key, req.Value, req.TTL, req.Cas, t)
      [] req.Op = "incr" -> handleIncr(w, req.Key, req.Delta, t)
      [] req.Op = "decr" -> handleDecr(w, req.Key, req.Delta, t)
      [] req.Op = "append" -> handleAppend(w, req.Key, req.Value, t)
      [] req.Op = "prepend" -> handlePrepend(w, req.Key, req.Value, t)
      [] req.Op = "flush" -> handleFlushAll(w)
      [] OTHER -> [w |-> w, resp |-> ErrResp("ErrKeyNotFound")]

\* ------------------------------------------------------------------------
\* The state of one shard
\* ------------------------------------------------------------------------
VARIABLES
    keysFile,    \* Storage.keysFile: its whole records
    keysTail,    \* ... and the bytes after the last whole record
    dataFiles,   \* Storage.dataFiles: per bucket, the slots
    btree,       \* Index.btree
    keyIdMap,    \* Index.keyIdMap
    slotIndex,   \* Index.slotIndex
    expiryHeap,  \* Index.expiryHeap
    nextKeyId,   \* Worker.nextKeyId
    nextSlotId,  \* Worker.nextSlotId
    DefaultTTL,  \* Worker.DefaultTTL (ns)
    MaxTTL,      \* Worker.MaxTTL (ns)
    now,         \* the latest reading of the wall clock (ns)
    resp,        \* the request handled last (op, key, arg, value req) and its response
    nops,        \* requests, ticks and restarts so far
    expect,      \* history: per key, the (value, cas) a SET stored or a GET returned
    lastMut,     \* history: per key, the cas its latest value mutation returned
    casWon,      \* history: per key, the witness of its latest successful CAS
    maxCas,      \* history: the largest cas any mutation returned
    deadline,    \* history: per key, set time + ttl of its latest SET with ttl > 0
    syncAlways,  \* Storage.syncAlways
    oplog,       \* history: the log of the request handled last
    reqChan,     \* Worker.reqChan: the requests sent and not yet received
    respChan,    \* per client, Request.RespChan of its call of sendRequest
    pc,          \* per client, where it is in sendRequest
    sent,        \* per client, the requests it has sent
    worker,      \* the goroutine of Worker.run: "running", "exited", or "blocked" in a send
    stopChan,    \* Worker.stopChan: "open" or "closed"
    storageOpen, \* FALSE once Storage.Close has closed the files
    arrived,     \* history: the ids of the requests in the order they entered reqChan
    handled,     \* history: the requests and ticks the worker handled, in order
    atClose,     \* history: the ids in reqChan when Close closed stopChan
    intBits,     \* the width of int in the build: 32 or 64
    shardCount,  \* len(ShardedCache.workers)
    dispatched,  \* history: the requests sendRequest was called with, and their shardIdx
    panicked,    \* TRUE once a goroutine panicked on an index out of range
    syncNotify,  \* TRUE when Worker.syncNotify is set (periodic sync)
    lastSync,    \* Worker.lastSync (ns)
    syncChan,    \* ShardedCache.syncChan: the worker indexes sent and not yet received
    syncPc,      \* the goroutine of runSyncWorker: "idle", or "synced" before MarkSynced
    statsPc,     \* the goroutine that calls Stats: "idle", or "reading" the index
    statsSeen,   \* history: the curr_items its calls of Stats returned
    inHandler,   \* the request or tick the goroutine of Worker.run is handling
    maxConnections, \* Server.maxConnections
    currConns,   \* Server.currConns
    acceptPc,    \* the accept loop of Server.Start: "accept", or "add" after the limit check
    inHand,      \* the connection the accept loop holds between the check and the add
    conns,       \* per connection: "new", "rejected", "handling", "closed", "done"
    stopSync,    \* ShardedCache.stopSync: "open" or "closed"
    unsynced     \* history: TRUE when a mutation was acknowledged and no fsync began since

shardVars == <<keysFile, keysTail, dataFiles, btree, keyIdMap, slotIndex, expiryHeap,
               nextKeyId, nextSlotId>>

histVars == <<expect, lastMut, casWon, maxCas, deadline, oplog>>

mailVars == <<reqChan, respChan, pc, sent, worker, stopChan, storageOpen,
              arrived, handled, atClose>>

cacheVars == <<intBits, shardCount, dispatched, panicked, syncNotify, lastSync, syncChan,
               syncPc, statsPc, statsSeen, inHandler>>

srvVars == <<maxConnections, currConns, acceptPc, inHand, conns>>

durVars == <<stopSync, unsynced>>

vars == <<shardVars, DefaultTTL, MaxTTL, syncAlways, now, resp, nops, histVars, mailVars,
          cacheVars, srvVars, durVars>>

W == [keys |-> keysFile, tail |-> keysTail, data |-> dataFiles, btree |-> btree,
      keyIdMap |-> keyIdMap, slotIndex |-> slotIndex, heap |-> expiryHeap,
      nextKeyId |-> nextKeyId, nextSlotId |-> nextSlotId,
      DefaultTTL |-> DefaultTTL, MaxTTL |-> MaxTTL,
      syncAlways |-> syncAlways, log |-> << >>, trail |-> << >>]

\* the worker between two requests
Settled(w) == [w EXCEPT !.log = << >>, !.trail = << >>]

Commit(w) ==
    /\ keysFile' = w.keys
    /\ keysTail' = w.tail
    /\ dataFiles' = w.data
    /\ btree' = w.btree
    /\ keyIdMap' = w.keyIdMap
    /\ slotIndex' = w.slotIndex
    /\ expiryHeap' = w.heap
    /\ nextKeyId' = w.nextKeyId
    /\ nextSlotId' = w.nextSlotId
    /\ oplog' = w.log
    /\ UNCHANGED <<DefaultTTL, MaxTTL, syncAlways>>

\* ------------------------------------------------------------------------
\* Inputs
\* ------------------------------------------------------------------------
Chr(b) == Str(b, 1)
KeyA == Chr(97)
KeyB == Chr(98)
KeyC == Chr(99)
KeyLong == Str(107, MaxKeySize + 1)        \* 1025 bytes

ValDigit == Chr(53)                        \* "5"
ValSmall == Chr(120)                       \* "x"
ValMid == Str(65, 900)                     \* 900 bytes, bucket 0
ValBig == Str(66, 1400)                    \* 1400 bytes, bucket 1
ValTail == Str(66, 500)                    \* 500 bytes
ValHuge == Str(72, bucketSizes(NumBuckets - 1))      \* fills the largest bucket
ValTooLarge == Str(72, bucketSizes(NumBuckets - 1) + 1)

\* a byte string from the list of its bytes
RECURSIVE Bytes(_)
Bytes(seq) == IF seq = << >> THEN << >> ELSE BCat(Chr(Head(seq)), Bytes(Tail(seq)))

\* the ASCII string of a list of decimal digits
Dec(digits) == Bytes([i \in 1 .. Len(digits) |-> 48 + digits[i]])

MaxU64Dec == <<1, 8, 4, 4, 6, 7, 4, 4, 0, 7, 3, 7, 0, 9, 5, 5, 1, 6, 1, 5>>   \* 2^64 - 1
Two64Dec == <<1, 8, 4, 4, 6, 7, 4, 4, 0, 7, 3, 7, 0, 9, 5, 5, 1, 6, 1, 6>>    \* 2^64
Two63Dec == <<9, 2, 2, 3, 3, 7, 2, 0, 3, 6, 8, 5, 4, 7, 7, 5, 8, 0, 8>>       \* 2^63

\* stored values that are decimal numbers below 2^64
NumValues == {Dec(<<0>>), Dec(<<5>>), Dec(<<0, 0, 7>>), Dec(Two63Dec), Dec(MaxU64Dec)}

\* stored values that are not: a letter among digits, no byte at all, 2^64,
\* and a number of 21 digits
NonNumValues == {Bytes(<<49, 50, 97>>), << >>, Dec(Two64Dec), Dec(<<1>> \o MaxU64Dec)}

\* deltas of INCR / DECR: the uint64 and its decimal digits
Deltas ==
    { [u |-> U64(1), dec |-> <<1>>],
      [u |-> U64(7), dec |-> <<7>>],
      [u |-> <<0, 0, 0, 32768>>, dec |-> Two63Dec],
      [u |-> <<65535, 65535, 65535, 65535>>, dec |-> MaxU64Dec] }

\* values around the bucket boundaries and around 64 MiB
SizedValues ==
    { Str(83, n) : n \in {0, 1, MinBucketSize, MinBucketSize + 1,
                          bucketSizes(NumBuckets - 1), bucketSizes(NumBuckets - 1) + 1,
                          MaxBucketSize, MaxBucketSize + 1} }

AllKeys == {KeyA, KeyB, KeyC, KeyLong}

Ms == NsPerMs
TickInterval == 100 * NsPerMs

\* the goroutines that call sendRequest: one writes, one reads and deletes
Writer == "writer"
Reader == "reader"

Clients == {Writer, Reader}

NoExpect == [v |-> << >>, tag |-> "none", c |-> 0]

ValueMutations == {"set", "add", "replace", "cas", "append", "prepend", "incr", "decr"}

\* ------------------------------------------------------------------------
\* Init: a worker constructed over an empty data directory
\* ------------------------------------------------------------------------
\* no request or tick in hand
Idle == [Key |-> << >>, Value |-> << >>, Op |-> "none", TTL |-> 0]

\* the connections the model lets arrive
MaxConns == 4
ConnIds == 1 .. MaxConns

\* Server.New: maxConnections: 1024
DefaultMaxConnections == 1024

InitServer(defaultTTLs, maxTTLs, modes, builds, counts, notifies, limits) ==
    /\ maxConnections \in limits
    /\ currConns = 0
    /\ acceptPc = "accept"
    /\ inHand = 0
    /\ conns = [c \in ConnIds |-> "new"]
    /\ stopSync = "open"
    /\ unsynced = FALSE
    /\ keysFile = << >>
    /\ keysTail = 0
    /\ dataFiles = [b \in Buckets |-> << >>]
    /\ btree = EmptyMap
    /\ keyIdMap = EmptyMap
    /\ slotIndex = [b \in Buckets |-> EmptyMap]
    /\ expiryHeap = NewExpiryHeap
    /\ nextKeyId = 0
    /\ nextSlotId = [b \in Buckets |-> 0]
    /\ DefaultTTL \in defaultTTLs
    /\ MaxTTL \in maxTTLs
    /\ now = Ms
    /\ resp = [op |-> "init", key |-> << >>, arg |-> 0, req |-> << >>,
               Value |-> << >>, Cas |-> 0, Err |-> ""]
    /\ nops = 0
    /\ expect = [k \in AllKeys |-> NoExpect]
    /\ lastMut = [k \in AllKeys |-> 0]
    /\ casWon = [k \in AllKeys |-> 0]
    /\ maxCas = 0
    /\ deadline = [k \in AllKeys |-> 0]
    /\ syncAlways \in modes
    /\ oplog = << >>
    /\ reqChan = << >>
    /\ respChan = [c \in Clients |-> << >>]
    /\ pc = [c \in Clients |-> "idle"]
    /\ sent = [c \in Clients |-> 0]
    /\ worker = "running"
    /\ stopChan = "open"
    /\ storageOpen = TRUE
    /\ arrived = << >>
    /\ handled = << >>
    /\ atClose = {}
    /\ intBits \in builds
    /\ shardCount \in counts
    /\ dispatched = << >>
    /\ panicked = FALSE
    /\ syncNotify \in notifies
    /\ lastSync = Ms
    /\ syncChan = << >>
    /\ syncPc = "idle"
    /\ statsPc = "idle"
    /\ statsSeen = << >>
    /\ inHandler = Idle

\* ... with the connection limit of Server.New
InitBuild(defaultTTLs, maxTTLs, modes, builds, counts, notifies) ==
    InitServer(defaultTTLs, maxTTLs, modes, builds, counts, notifies, {DefaultMaxConnections})

\* ... built for amd64 with one shard, the goroutine of runSyncWorker left out
InitMode(defaultTTLs, maxTTLs, modes) ==
    InitBuild(defaultTTLs, maxTTLs, modes, {64}, {1}, {FALSE})

\* ... with the default of the configuration, periodic sync
InitWith(defaultTTLs, maxTTLs) == InitMode(defaultTTLs, maxTTLs, {FALSE})

\* ------------------------------------------------------------------------
\* One request handled by the worker: r is the handler's result, t the
\* clock reading, arg the ttl (SET, TOUCH), witness (CAS) or delta, value
\* the value the request carries.
\* ------------------------------------------------------------------------
Apply(op, k, arg, value, r, t) ==
    LET ok == r.resp.Err = ""
        mutated == op \in ValueMutations /\ ok
    IN /\ Commit(r.w)
       /\ now' = t
       /\ nops' = nops + 1
       /\ resp' = [op |-> op, key |-> k, arg |-> arg, req |-> value,
                   Value |-> r.resp.Value, Cas |-> r.resp.Cas, Err |-> r.resp.Err]
       /\ expect' = [expect EXCEPT ![k] =
             IF op = "set" /\ ok THEN [tag |-> "set", v |-> value, c |-> r.resp.Cas]
             ELSE IF op = "get"
                  THEN (IF ok THEN [tag |-> "get", v |-> r.resp.Value, c |-> r.resp.Cas]
                        ELSE NoExpect)
             ELSE IF ok \/ @.tag = "get" THEN NoExpect
             ELSE @]
       /\ lastMut' = [lastMut EXCEPT ![k] =
             IF mutated THEN r.resp.Cas ELSE IF op = "delete" /\ ok THEN 0 ELSE @]
       /\ casWon' = [casWon EXCEPT ![k] =
             IF op = "cas" /\ ok THEN arg ELSE IF op = "delete" /\ ok THEN 0 ELSE @]
       /\ maxCas' = IF mutated /\ r.resp.Cas > maxCas THEN r.resp.Cas ELSE maxCas
       /\ deadline' = [deadline EXCEPT ![k] =
             IF op = "set" /\ ok /\ arg > 0 THEN t + arg
             ELSE IF op # "get" /\ ok THEN 0
             ELSE @]

\* ... by a worker that is called directly, with no mailbox
Handled(op, k, arg, value, r, t) ==
    Apply(op, k, arg, value, r, t) /\ UNCHANGED <<mailVars, cacheVars, srvVars, durVars>>

Get(k, adv) ==
    Handled("get", k, 0, << >>, handleGet(W, k, now + adv), now + adv)

Set(k, v, ttl, adv) ==
    Handled("set", k, ttl, v, handleSet(W, k, v, ttl, now + adv), now + adv)

Add(k, v, ttl, adv) ==
    Handled("add", k, ttl, v, handleAdd(W, k, v, ttl, now + adv), now + adv)

Replace(k, v, ttl, adv) ==
    Handled("replace", k, ttl, v, handleReplace(W, k, v, ttl, now + adv), now + adv)

Cas(k, v, ttl, witness, adv) ==
    Handled("cas", k, witness, v, handleCas(W, k, v, ttl, witness, now + adv), now + adv)

Delete(k, adv) ==
    Handled("delete", k, 0, << >>, handleDelete(W, k), now + adv)

Touch(k, ttl, adv) ==
    Handled("touch", k, ttl, << >>, handleTouch(W, k, ttl, now + adv), now + adv)

Incr(k, delta, adv) ==
    Handled("incr", k, delta, << >>, handleIncr(W, k, delta, now + adv), now + adv)

Decr(k, delta, adv) ==
    Handled("decr", k, delta, << >>, handleDecr(W, k, delta, now + adv), now + adv)

AppendOp(k, v, adv) ==
    Handled("append", k, 0, v, handleAppend(W, k, v, now + adv), now + adv)

PrependOp(k, v, adv) ==
    Handled("prepend", k, 0, v, handlePrepend(W, k, v, now + adv), now + adv)

\* an event that is no single-key request: FLUSH_ALL, the TTL tick, a restart
ApplyEvent(op, w, t) ==
    /\ Commit(w)
    /\ now' = t
    /\ nops' = nops + 1
    /\ resp' = [op |-> op, key |-> << >>, arg |-> 0, req |-> << >>,
                Value |-> << >>, Cas |-> 0, Err |-> ""]
    /\ expect' = IF op = "tick" THEN expect ELSE [k \in AllKeys |-> NoExpect]
    /\ lastMut' = IF op = "flush" THEN [k \in AllKeys |-> 0] ELSE lastMut
    /\ casWon' = IF op = "flush" THEN [k \in AllKeys |-> 0] ELSE casWon
    /\ maxCas' = maxCas
    /\ deadline' = IF op = "flush" THEN [k \in AllKeys |-> 0] ELSE deadline

Event(op, w, t) == ApplyEvent(op, w, t) /\ UNCHANGED <<mailVars, cacheVars, srvVars, durVars>>

FlushAll(adv) == Event("flush", handleFlushAll(W).w, now + adv)

\* the expiry ticker of Worker.run fires
Tick(adv) == Event("tick", cleanupExpired(W, now + adv), now + adv)

\* Close, then NewStorage and NewWorker over the same data directory
Reopen(adv) == Event("reopen", recover(W, now + adv), now + adv)

\* ------------------------------------------------------------------------
\* Spec: every request kind on two keys and an over-long key.  The wall
\* clock may return the same reading to two requests (step 0).
\* ------------------------------------------------------------------------
MaxOps == 3

Keys == {KeyA, KeyB}
Steps == {0, 1}

\* a witness that matches the entry's cas, and one that cannot
Witnesses(k) == {IF Has(btree, k) THEN btree[k].Cas ELSE 0, 7}

Init == InitWith({0}, {0})

DoGet == nops < MaxOps /\ \E adv \in Steps, k \in Keys \cup {KeyLong} : Get(k, adv)

DoSet ==
    /\ nops < MaxOps
    /\ \E adv \in Steps, k \in Keys \cup {KeyLong},
          v \in {ValDigit, ValMid, ValTooLarge}, ttl \in {0, Ms} : Set(k, v, ttl, adv)

DoAdd ==
    /\ nops < MaxOps
    /\ \E adv \in Steps, k \in Keys \cup {KeyLong}, v \in {ValDigit, ValTooLarge} :
          Add(k, v, 0, adv)

DoReplace ==
    /\ nops < MaxOps
    /\ \E adv \in Steps, k \in Keys \cup {KeyLong}, v \in {ValBig, ValTooLarge} :
          Replace(k, v, 0, adv)

DoCas ==
    /\ nops < MaxOps
    /\ \E adv \in Steps, k \in Keys \cup {KeyLong}, v \in {ValDigit, ValTooLarge} :
          \E wit \in Witnesses(k) : Cas(k, v, 0, wit, adv)

DoDelete == nops < MaxOps /\ \E adv \in Steps, k \in Keys : Delete(k, adv)

DoTouch == nops < MaxOps /\ \E adv \in Steps, k \in Keys, ttl \in {0, Ms} : Touch(k, ttl, adv)

DoIncr == nops < MaxOps /\ \E adv \in Steps, k \in Keys : Incr(k, U64(5), adv)

DoDecr == nops < MaxOps /\ \E adv \in Steps, k \in Keys : Decr(k, U64(7), adv)

DoAppend ==
    /\ nops < MaxOps
    /\ \E adv \in Steps, k \in Keys, v \in {ValTail, ValHuge} : AppendOp(k, v, adv)

DoPrepend ==
    /\ nops < MaxOps
    /\ \E adv \in Steps, k \in Keys, v \in {ValDigit, ValHuge} : PrependOp(k, v, adv)

DoFlushAll == nops < MaxOps /\ \E adv \in Steps : FlushAll(adv)

DoTick == nops < MaxOps /\ \E adv \in Steps : Tick(adv)

DoReopen == nops < MaxOps /\ \E adv \in Steps : Reopen(adv)

Next ==
    \/ DoGet \/ DoSet \/ DoAdd \/ DoReplace \/ DoCas \/ DoDelete \/ DoTouch
    \/ DoIncr \/ DoDecr \/ DoAppend \/ DoPrepend \/ DoFlushAll \/ DoTick \/ DoReopen

Spec == Init /\ [][Next]_vars

\* ------------------------------------------------------------------------
\* SpecCompact: three keys whose values move between buckets 0 and 1, so
\* that data slots and key records are compacted.  The clock advances with
\* every request.
\* ------------------------------------------------------------------------
MaxCompactOps == 6

CompactKeys == {KeyA, KeyB, KeyC}

CompactGet == nops < MaxCompactOps /\ \E k \in CompactKeys : Get(k, 1)

CompactSet ==
    /\ nops < MaxCompactOps
    /\ \E k \in CompactKeys, v \in {ValSmall, ValBig} : Set(k, v, 0, 1)

CompactDelete == nops < MaxCompactOps /\ \E k \in CompactKeys : Delete(k, 1)

NextCompact == CompactGet \/ CompactSet \/ CompactDelete

SpecCompact == Init /\ [][NextCompact]_vars

\* ------------------------------------------------------------------------
\* SpecTTL: entries with a TTL, the clock passing their expiry, the TTL
\* tick and restarts.
\* ------------------------------------------------------------------------
MaxTTLOps == 4

TTLSteps == {Ms, 2 * TickInterval}

TTLSet ==
    /\ nops < MaxTTLOps
    /\ \E adv \in TTLSteps, k \in Keys, ttl \in {0, 2 * Ms} : Set(k, ValSmall, ttl, adv)

TTLGet == nops < MaxTTLOps /\ \E adv \in TTLSteps, k \in Keys : Get(k, adv)

TTLTouch ==
    /\ nops < MaxTTLOps
    /\ \E adv \in TTLSteps, k \in Keys, ttl \in {0, 2 * Ms} : Touch(k, ttl, adv)

TTLDelete == nops < MaxTTLOps /\ \E adv \in TTLSteps, k \in Keys : Delete(k, adv)

TTLTick == nops < MaxTTLOps /\ \E adv \in TTLSteps : Tick(adv)

TTLReopen == nops < MaxTTLOps /\ \E adv \in TTLSteps : Reopen(adv)

NextTTL == TTLSet \/ TTLGet \/ TTLTouch \/ TTLDelete \/ TTLTick \/ TTLReopen

SpecTTL == Init /\ [][NextTTL]_vars

\* ------------------------------------------------------------------------
\* SpecCas: one numeric key that is set, incremented, appended to and
\* updated by CAS across restarts.  The clock advances with every request.
\* ------------------------------------------------------------------------
MaxCasOps == 4

CasSet == nops < MaxCasOps /\ Set(KeyA, ValDigit, 0, 1)

CasIncr == nops < MaxCasOps /\ Incr(KeyA, U64(5), 1)

CasAppend == nops < MaxCasOps /\ AppendOp(KeyA, ValDigit, 1)

CasCas ==
    /\ nops < MaxCasOps
    /\ \E wit \in Witnesses(KeyA) \cup {lastMut[KeyA]} : Cas(KeyA, ValSmall, 0, wit, 1)

CasReopen == nops < MaxCasOps /\ Reopen(1)

NextCas == CasSet \/ CasIncr \/ CasAppend \/ CasCas \/ CasReopen

SpecCas == Init /\ [][NextCas]_vars

\* ------------------------------------------------------------------------
\* SpecMaxTTL: workers configured with and without DefaultTTL and MaxTTL;
\* every request that takes a TTL, with TTLs below and above the cap.
\* ------------------------------------------------------------------------
MaxCapOps == 3

CapTTLs == {0, Ms, 5 * Ms}

InitMaxTTL == InitWith({0, 3 * Ms}, {0, 2 * Ms})

CapSet == nops < MaxCapOps /\ \E k \in Keys, ttl \in CapTTLs : Set(k, ValSmall, ttl, 1)

CapAdd == nops < MaxCapOps /\ \E k \in Keys, ttl \in CapTTLs : Add(k, ValSmall, ttl, 1)

CapReplace ==
    nops < MaxCapOps /\ \E k \in Keys, ttl \in CapTTLs : Replace(k, ValDigit, ttl, 1)

CapCas ==
    /\ nops < MaxCapOps
    /\ \E k \in Keys, ttl \in CapTTLs :
          \E wit \in Witnesses(k) : Cas(k, ValDigit, ttl, wit, 1)

CapTouch == nops < MaxCapOps /\ \E k \in Keys, ttl \in CapTTLs : Touch(k, ttl, 1)

NextMaxTTL == CapSet \/ CapAdd \/ CapReplace \/ CapCas \/ CapTouch

SpecMaxTTL == InitMaxTTL /\ [][NextMaxTTL]_vars

\* ------------------------------------------------------------------------
\* SpecNum: one key holding numbers up to 2^64 - 1 and values that are no
\* such number, incremented and decremented by deltas up to 2^64 - 1.
\* ------------------------------------------------------------------------
MaxNumOps == 3

NumSet ==
    nops < MaxNumOps /\ \E v \in NumValues \cup NonNumValues : Set(KeyA, v, 0, 1)

NumIncr == nops < MaxNumOps /\ \E d \in Deltas : Incr(KeyA, d.u, 1)

NumDecr == nops < MaxNumOps /\ \E d \in Deltas : Decr(KeyA, d.u, 1)

NumGet == nops < MaxNumOps /\ Get(KeyA, 1)

NextNum == NumSet \/ NumIncr \/ NumDecr \/ NumGet

SpecNum == Init /\ [][NextNum]_vars

\* ------------------------------------------------------------------------
\* SpecAppend: three keys of bucket 0 are set, grown by APPEND and PREPEND
\* into bucket 1 and deleted, so that slots of both buckets are moved.
\* ------------------------------------------------------------------------
MaxAppendOps == 4

AppendKeys == {KeyA, KeyB, KeyC}

AppSet == nops < MaxAppendOps /\ \E adv \in Steps, k \in AppendKeys : Set(k, ValMid, 0, adv)

AppAppend ==
    nops < MaxAppendOps /\ \E adv \in Steps, k \in AppendKeys : AppendOp(k, ValTail, adv)

AppPrepend ==
    nops < MaxAppendOps /\ \E adv \in Steps, k \in AppendKeys : PrependOp(k, ValDigit, adv)

AppDelete == nops < MaxAppendOps /\ \E adv \in Steps, k \in AppendKeys : Delete(k, adv)

NextAppend == AppSet \/ AppAppend \/ AppPrepend \/ AppDelete

SpecAppend == Init /\ [][NextAppend]_vars

\* ------------------------------------------------------------------------
\* SpecSize: values of every size class, up to and beyond 64 MiB, set on
\* two keys and read back.
\* ------------------------------------------------------------------------
MaxSizeOps == 3

SizeSet == nops < MaxSizeOps /\ \E k \in Keys, v \in SizedValues : Set(k, v, 0, 1)

SizeGet == nops < MaxSizeOps /\ \E k \in Keys : Get(k, 1)

NextSize == SizeSet \/ SizeGet

SpecSize == Init /\ [][NextSize]_vars

\* ------------------------------------------------------------------------
\* SpecBucket: one key set to values of buckets 0 and 1, among them a
\* number written with 1025 digits, then incremented, decremented, grown
\* and read.
\* ------------------------------------------------------------------------
MaxBucketOps == 3

ValZeros == Str(48, MinBucketSize + 1)        \* "00...0", 1025 digits

BucketSet ==
    nops < MaxBucketOps /\ \E v \in {ValDigit, ValMid, ValBig, ValZeros} : Set(KeyA, v, 0, 1)

BucketIncr == nops < MaxBucketOps /\ Incr(KeyA, U64(5), 1)

BucketDecr == nops < MaxBucketOps /\ Decr(KeyA, U64(7), 1)

BucketAppend == nops < MaxBucketOps /\ \E v \in {ValDigit, ValTail} : AppendOp(KeyA, v, 1)

BucketGet == nops < MaxBucketOps /\ Get(KeyA, 1)

NextBucket == BucketSet \/ BucketIncr \/ BucketDecr \/ BucketAppend \/ BucketGet

SpecBucket == Init /\ [][NextBucket]_vars

\* ------------------------------------------------------------------------
\* SpecSync: a shard opened in durability mode always or not, two keys
\* written, grown, touched, deleted and flushed.
\* ------------------------------------------------------------------------
MaxSyncOps == 3

InitSync == InitMode({0}, {0}, {TRUE, FALSE})

SyncSet == nops < MaxSyncOps /\ \E k \in Keys, v \in {ValMid, ValBig} : Set(k, v, 0, 1)

SyncAppend == nops < MaxSyncOps /\ \E k \in Keys : AppendOp(k, ValTail, 1)

SyncTouch == nops < MaxSyncOps /\ \E k \in Keys : Touch(k, Ms, 1)

SyncDelete == nops < MaxSyncOps /\ \E k \in Keys : Delete(k, 1)

SyncFlushAll == nops < MaxSyncOps /\ FlushAll(1)

NextSync == SyncSet \/ SyncAppend \/ SyncTouch \/ SyncDelete \/ SyncFlushAll

SpecSync == InitSync /\ [][NextSync]_vars

\* ------------------------------------------------------------------------
\* SpecMailbox: two clients call sendRequest concurrently on one shard whose
\* worker runs Worker.run, while a third goroutine calls Close.
\* ------------------------------------------------------------------------
MaxSends == 3
ChanCap == 2
MaxTicks == 1

\* sendRequest: make(chan *Response, 1)
RespChanCap == 1

Request(c, op, key, value, ttl, delta) ==
    [id |-> <<c, sent[c] + 1>>, Op |-> op, Key |-> key, Value |-> value,
     TTL |-> ttl, Cas |-> 0, Delta |-> delta]

NoRequest == Request(Writer, "none", << >>, << >>, 0, U64(0))

\* sendRequest up to its send: a new reply channel, and the request enters
\* reqChan when the buffer has room
Send(c, req) ==
    /\ pc[c] = "idle"
    /\ Len(arrived) < MaxSends
    /\ Len(reqChan) < ChanCap
    /\ reqChan' = Append(reqChan, req)
    /\ respChan' = [respChan EXCEPT ![c] = << >>]
    /\ pc' = [pc EXCEPT ![c] = "waiting"]
    /\ sent' = [sent EXCEPT ![c] = @ + 1]
    /\ arrived' = Append(arrived, req.id)
    /\ UNCHANGED <<shardVars, DefaultTTL, MaxTTL, syncAlways, now, resp, nops, histVars, cacheVars,
                   worker, stopChan, storageOpen, handled, atClose, srvVars, durVars>>

MailSet == Send(Writer, Request(Writer, "set", KeyA, ValDigit, Ms, U64(0)))

MailIncr == Send(Writer, Request(Writer, "incr", KeyA, << >>, 0, U64(5)))

MailGet == Send(Reader, Request(Reader, "get", KeyA, << >>, 0, U64(0)))

MailDelete == Send(Reader, Request(Reader, "delete", KeyA, << >>, 0, U64(0)))

\* sendRequest from its receive on: the client takes the reply
Receive ==
    \E c \in Clients :
        /\ pc[c] = "waiting"
        /\ respChan[c] # << >>
        /\ pc' = [pc EXCEPT ![c] = "idle"]
        /\ respChan' = [respChan EXCEPT ![c] = << >>]
        /\ UNCHANGED <<shardVars, DefaultTTL, MaxTTL, syncAlways, now, resp, nops, histVars, cacheVars,
                       reqChan, sent, worker, stopChan, storageOpen, arrived,
                       handled, atClose, srvVars, durVars>>

\* Worker.run takes a request from reqChan, handles it and sends the reply
\* on the request's RespChan; it stays in that send when the send blocks
WorkerRecv ==
    /\ worker = "running"
    /\ reqChan # << >>
    /\ \E m \in {ChanRecv(reqChan)} :
          \E r \in {handleRequest(W, m.req, now + 1)} :
             \E sent1 \in {ChanSend(respChan[m.req.id[1]], r.resp, RespChanCap)} :
                LET req == m.req
                    t == now + 1
                    arg == IF req.Op \in {"incr", "decr"} THEN req.Delta ELSE req.TTL
                IN /\ Apply(req.Op, req.Key, arg, req.Value, r, t)
                   /\ reqChan' = m.rest
                   /\ respChan' = [respChan EXCEPT ![req.id[1]] = sent1.ch]
                   /\ worker' = IF sent1.ok THEN worker ELSE "blocked"
                   /\ handled' = Append(handled, [kind |-> "req", req |-> req, t |-> t,
                                                  resp |-> r.resp])
    /\ UNCHANGED <<pc, sent, stopChan, storageOpen, arrived, atClose, cacheVars, srvVars, durVars>>

Ticks == Cardinality({i \in 1 .. Len(handled) : handled[i].kind = "tick"})

\* Worker.run takes a tick of the expiry ticker
WorkerTick ==
    /\ worker = "running"
    /\ Ticks < MaxTicks
    /\ LET t == now + TickInterval
       IN /\ ApplyEvent("tick", cleanupExpired(W, t), t)
          /\ handled' = Append(handled, [kind |-> "tick", req |-> NoRequest, t |-> t,
                                         resp |-> ErrResp("")])
    /\ UNCHANGED <<reqChan, respChan, pc, sent, worker, stopChan, storageOpen,
                   arrived, atClose, cacheVars, srvVars, durVars>>

\* Close -> Worker.Close -> Worker.Stop closes stopChan
CloseStop ==
    /\ stopChan = "open"
    /\ stopChan' = "closed"
    /\ atClose' = {reqChan[i].id : i \in 1 .. Len(reqChan)}
    /\ UNCHANGED <<shardVars, DefaultTTL, MaxTTL, syncAlways, now, resp, nops, histVars, cacheVars,
                   reqChan, respChan, pc, sent, worker, storageOpen, arrived, handled, srvVars, durVars>>

\* Worker.run takes the case of the closed stopChan and returns
WorkerExit ==
    /\ worker = "running"
    /\ stopChan = "closed"
    /\ worker' = "exited"
    /\ UNCHANGED <<shardVars, DefaultTTL, MaxTTL, syncAlways, now, resp, nops, histVars, cacheVars,
                   reqChan, respChan, pc, sent, stopChan, storageOpen, arrived,
                   handled, atClose, srvVars, durVars>>

\* Worker.Stop returns from wg.Wait and Worker.Close closes the storage
CloseStorage ==
    /\ worker = "exited"
    /\ storageOpen
    /\ storageOpen' = FALSE
    /\ UNCHANGED <<shardVars, DefaultTTL, MaxTTL, syncAlways, now, resp, nops, histVars, cacheVars,
                   reqChan, respChan, pc, sent, worker, stopChan, arrived,
                   handled, atClose, srvVars, durVars>>

NextMailbox ==
    \/ MailSet \/ MailGet \/ MailIncr \/ MailDelete \/ Receive
    \/ WorkerRecv \/ WorkerTick \/ CloseStop \/ WorkerExit \/ CloseStorage

SpecMailbox == Init /\ [][NextMailbox]_vars

\* ... with the scheduler running every goroutine that can take a step
SpecMailboxFair ==
    /\ SpecMailbox
    /\ WF_vars(WorkerRecv)
    /\ WF_vars(WorkerExit)
    /\ WF_vars(Receive)
    /\ WF_vars(CloseStorage)

\* ------------------------------------------------------------------------
\* SpecCrash: SET, APPEND and DELETE over two keys and two buckets; the
\* process may die inside a request that compacts, after any of its changes
\* of a file but the last, and a new worker recovers from the files.
\* ------------------------------------------------------------------------
MaxCrashOps == 3

CrashSet == nops < MaxCrashOps /\ \E k \in Keys, v \in {ValMid, ValBig} : Set(k, v, 0, 1)

CrashAppend == nops < MaxCrashOps /\ \E k \in Keys : AppendOp(k, ValTail, 1)

CrashDelete == nops < MaxCrashOps /\ \E k \in Keys : Delete(k, 1)

\* the request called compactDataSlot
Compacts(r) == \E j \in DOMAIN r.w.log : r.w.log[j].ev = "compactDataSlot"

\* the process dies while the worker is in the handler whose result would be
\* r: the files stay as change i left them, and NewWorker runs recover on them
Crash(r, t) ==
    /\ nops < MaxCrashOps
    /\ Compacts(r)
    /\ \E i \in 1 .. (Len(r.w.trail) - 1) :
          \E snap \in {r.w.trail[i]} :
             Event("crash",
                   recover([W EXCEPT !.keys = snap.keys, !.tail = snap.tail,
                                     !.data = snap.data], t),
                   t)

CrashInSet == \E k \in Keys, v \in {ValMid, ValBig} : Crash(handleSet(W, k, v, 0, now + 1), now + 1)

CrashInAppend == \E k \in Keys : Crash(handleAppend(W, k, ValTail, now + 1), now + 1)

CrashInDelete == \E k \in Keys : Crash(handleDelete(W, k), now + 1)

NextCrash ==
    \/ CrashSet \/ CrashAppend \/ CrashDelete
    \/ CrashInSet \/ CrashInAppend \/ CrashInDelete

SpecCrash == Init /\ [][NextCrash]_vars

\* ------------------------------------------------------------------------
\* SpecHeap: the expiry heap of an Index driven directly with Insert,
\* Remove and UpdateKeyId.  As in compactKeySlot, UpdateKeyId re-keys to a
\* keyId whose own heap record Index.Delete has removed before.
\* ------------------------------------------------------------------------
MaxHeapOps == 5
HeapKeyIds == 0 .. 3
HeapExpiries == {Ms, 2 * Ms, 3 * Ms}

HeapStep(op, keyId, h) ==
    /\ nops < MaxHeapOps
    /\ expiryHeap' = h
    /\ nops' = nops + 1
    /\ resp' = [resp EXCEPT !.op = op, !.arg = keyId]
    /\ UNCHANGED <<keysFile, keysTail, dataFiles, slotIndex, nextKeyId, nextSlotId,
                   DefaultTTL, MaxTTL, syncAlways, now, histVars, mailVars, cacheVars, srvVars, durVars>>

HeapOpInsert ==
    \E keyId \in HeapKeyIds, expiry \in HeapExpiries :
        /\ HeapStep("Insert", keyId, HeapInsert(expiryHeap, keyId, expiry))
        /\ UNCHANGED <<btree, keyIdMap>>

HeapOpRemove ==
    \E keyId \in HeapKeyIds :
        /\ HeapStep("Remove", keyId, HeapRemove(expiryHeap, keyId))
        /\ UNCHANGED <<btree, keyIdMap>>

HeapOpUpdateKeyId ==
    \E old \in HeapKeyIds, new \in HeapKeyIds :
        /\ old # new
        /\ ~Has(expiryHeap.keyIndex, new)
        /\ \E r \in {IndexUpdateKeyId(W, [Key |-> KeyA, KeyId |-> old, Bucket |-> 0,
                                          SlotIdx |-> 0, Length |-> 0, Expiry |-> 0,
                                          Cas |-> 0], new)} :
              /\ HeapStep("UpdateKeyId", new, r.heap)
              /\ btree' = r.btree
              /\ keyIdMap' = r.keyIdMap

NextHeap == HeapOpInsert \/ HeapOpRemove \/ HeapOpUpdateKeyId

SpecHeap == Init /\ [][NextHeap]_vars

\* ------------------------------------------------------------------------
\* ShardedCache: the router
\* ------------------------------------------------------------------------
\* a uint32 as two 16-bit limbs <<low, high>>
Half == 65536

RECURSIVE Xor(_, _, _)
\* the exclusive or of two numbers of n bits
Xor(a, b, n) ==
    IF n = 0 THEN 0
    ELSE ((a + b) % 2) + 2 * Xor(a \div 2, b \div 2, n - 1)

\* hash/fnv: offset32 = 2166136261 and prime32 = 16777619
FnvOffset32 == <<40389, 33052>>
FnvPrime32 == <<403, 256>>

\* sum32a.Write for one byte: hash ^= c; hash *= prime32
FnvStep(h, c) ==
    LET lo == (h[1] - (h[1] % 256)) + Xor(h[1] % 256, c, 8)
        p == lo * FnvPrime32[1]
    IN <<p % Half, (h[2] * FnvPrime32[1] + lo * FnvPrime32[2] + (p \div Half)) % Half>>

RECURSIVE FnvWrite(_, _)
\* sum32a.Write over a byte string
FnvWrite(h, data) ==
    IF data = << >> THEN h
    ELSE LET run == Head(data)
         IN IF run[2] = 0 THEN FnvWrite(h, Tail(data))
            ELSE FnvWrite(FnvStep(h, run[1]), << <<run[1], run[2] - 1>> >> \o Tail(data))

Sum32(key) == FnvWrite(FnvOffset32, key)

\* int(h) % n as Go computes it: int(h) is negative in a build with a 32-bit
\* int when the top bit of h is set, and % takes the sign of the dividend
IntRem(h, n, bits) ==
    IF bits = 32 /\ h[2] >= Half \div 2
    THEN 0 - ((((Half - 1 - h[2]) % n) * (Half % n) + (Half - h[1])) % n)
    ELSE ((h[2] % n) * (Half % n) + h[1]) % n

\* ShardedCache.shardFor
shardFor(key, n, bits) == IntRem(Sum32(key), n, bits)

\* ShardedCache.Stats: curr_items is the decimal text of the sum of the
\* workers' Index().Count(); StatsOf is its result for a sum, Stats its
\* result over the one shard
StatsOf(totalItems) == [curr_items |-> FormatUint(U64(totalItems))]

Stats == StatsOf(IndexCount(W))

\* ------------------------------------------------------------------------
\* SpecRoute: the single-key operations of a ShardedCache of 1 .. MaxShards
\* shards, up to the send of sendRequest
\* ------------------------------------------------------------------------
MaxShards == 5
MaxRoutes == 3
IntSizes == {32, 64}
RouteKeys == {KeyA, KeyB, KeyC, Bytes(<<102, 111, 111>>)}

InitRoute == InitBuild({0}, {0}, {FALSE}, IntSizes, 1 .. MaxShards, {FALSE})

\* sc.sendRequest(sc.shardFor(key), &Request{Op: op, Key: key}) up to the
\* send to sc.workers[shardIdx].RequestChan()
Route(op, key) ==
    /\ ~panicked
    /\ Len(dispatched) < MaxRoutes
    /\ \E shardIdx \in {shardFor(key, shardCount, intBits)} :
          IF shardIdx \in 0 .. (shardCount - 1)
          THEN /\ dispatched' = Append(dispatched, [Op |-> op, Key |-> key, shardIdx |-> shardIdx])
               /\ UNCHANGED panicked
          ELSE /\ panicked' = TRUE
               /\ UNCHANGED dispatched
    /\ UNCHANGED <<shardVars, DefaultTTL, MaxTTL, syncAlways, now, resp, nops, histVars,
                   mailVars, intBits, shardCount, syncNotify, lastSync, syncChan, syncPc,
                   statsPc, statsSeen, inHandler, srvVars, durVars>>

RouteGet == \E key \in RouteKeys : Route("get", key)

RouteSet == \E key \in RouteKeys : Route("set", key)

RouteDelete == \E key \in RouteKeys : Route("delete", key)

RouteTouch == \E key \in RouteKeys : Route("touch", key)

NextRoute == RouteGet \/ RouteSet \/ RouteDelete \/ RouteTouch

SpecRoute == InitRoute /\ [][NextRoute]_vars

\* ------------------------------------------------------------------------
\* SpecShared: one shard of a ShardedCache with periodic sync. The goroutine
\* of Worker.run handles requests and ticks, the goroutine of runSyncWorker
\* serves syncChan, and a third goroutine calls Stats.
\* ------------------------------------------------------------------------
MaxSharedOps == 2
MaxStatsCalls == 2
SyncInterval == 1000 * NsPerMs

InitShared == InitBuild({0}, {0}, {FALSE}, {64}, {1}, {TRUE, FALSE})

\* Worker.run takes a request or a tick and enters its handler; the callers
\* have stopped sending when Close is called
Take(req) ==
    /\ inHandler = Idle
    /\ worker = "running"
    /\ stopChan = "open"
    /\ nops < MaxSharedOps
    /\ inHandler' = req
    /\ UNCHANGED <<shardVars, DefaultTTL, MaxTTL, syncAlways, now, resp, nops, histVars,
                   mailVars, intBits, shardCount, dispatched, panicked, syncNotify,
                   lastSync, syncChan, syncPc, statsPc, statsSeen, srvVars, durVars>>

SharedSet == \E k \in Keys : Take([Key |-> k, Value |-> ValDigit, Op |-> "set", TTL |-> 0])

SharedDelete == \E k \in Keys : Take([Key |-> k, Value |-> << >>, Op |-> "delete", TTL |-> 0])

SharedTick == Take([Key |-> << >>, Value |-> << >>, Op |-> "tick", TTL |-> 0])

\* Storage.Sync on the files of a shard with the pending flag dirty: open
\* files are flushed, closed files return an error
StorageSync(open, dirty) == IF open THEN FALSE ELSE dirty

\* Storage.Close closes the key file and the data files; it does not sync
StorageClose(open) == FALSE

\* the closure NewSharded gives SetSyncNotify: a send that does not block
SyncNotifySend(ch) == IF Len(ch) < shardCount * 2 THEN Append(ch, 0) ELSE ch

\* Worker.checkSync at clock reading t
checkSync(ch, t) ==
    IF ~syncNotify THEN ch
    ELSE IF t - lastSync >= SyncInterval THEN SyncNotifySend(ch)
    ELSE ch

\* the handler runs to its end: handleSet and handleDelete end in checkSync
Finish ==
    /\ inHandler # Idle
    /\ \E t \in {now + 1, now + SyncInterval} :
          IF inHandler.Op = "tick"
          THEN /\ ApplyEvent("tick", cleanupExpired(W, t), t)
               /\ UNCHANGED <<syncChan, unsynced>>
          ELSE /\ \E r \in {IF inHandler.Op = "set"
                            THEN handleSet(W, inHandler.Key, inHandler.Value, inHandler.TTL, t)
                            ELSE handleDelete(W, inHandler.Key)} :
                      /\ Apply(inHandler.Op, inHandler.Key, inHandler.TTL, inHandler.Value, r, t)
                      /\ unsynced' = (unsynced \/ r.resp.Err = "")
               /\ syncChan' = checkSync(syncChan, t)
    /\ inHandler' = Idle
    /\ UNCHANGED <<mailVars, intBits, shardCount, dispatched, panicked, syncNotify,
                   lastSync, syncPc, statsPc, statsSeen, srvVars, stopSync>>

\* runSyncWorker takes a worker index from syncChan and calls worker.Sync()
SyncRecv ==
    /\ syncPc = "idle"
    /\ syncChan # << >>
    /\ syncChan' = Tail(syncChan)
    /\ syncPc' = "synced"
    /\ unsynced' = StorageSync(storageOpen, unsynced)
    /\ UNCHANGED <<shardVars, DefaultTTL, MaxTTL, syncAlways, now, resp, nops, histVars,
                   mailVars, intBits, shardCount, dispatched, panicked, syncNotify,
                   lastSync, statsPc, statsSeen, inHandler, srvVars, stopSync>>

\* runSyncWorker takes the case of the closed stopSync and returns
SyncStop ==
    /\ syncPc = "idle"
    /\ stopSync = "closed"
    /\ syncPc' = "stopped"
    /\ UNCHANGED <<shardVars, DefaultTTL, MaxTTL, syncAlways, now, resp, nops, histVars,
                   mailVars, intBits, shardCount, dispatched, panicked, syncNotify,
                   lastSync, syncChan, statsPc, statsSeen, inHandler, srvVars, durVars>>

\* ShardedCache.Close closes stopSync when the sync is periodic, and
\* Worker.Stop closes stopChan
SharedClose ==
    /\ stopChan = "open"
    /\ stopSync' = IF syncNotify THEN "closed" ELSE stopSync
    /\ stopChan' = "closed"
    /\ UNCHANGED <<shardVars, DefaultTTL, MaxTTL, syncAlways, now, resp, nops, histVars,
                   reqChan, respChan, pc, sent, worker, storageOpen, arrived, handled,
                   atClose, cacheVars, srvVars, unsynced>>

\* Worker.run returns on the closed stopChan, Worker.Stop returns from
\* wg.Wait, and Worker.Close closes the files of the storage
SharedExit ==
    /\ stopChan = "closed"
    /\ worker = "running"
    /\ inHandler = Idle
    /\ worker' = "exited"
    /\ storageOpen' = StorageClose(storageOpen)
    /\ UNCHANGED <<shardVars, DefaultTTL, MaxTTL, syncAlways, now, resp, nops, histVars,
                   reqChan, respChan, pc, sent, stopChan, arrived, handled,
                   atClose, cacheVars, srvVars, durVars>>

\* ... and calls worker.MarkSynced(), which writes Worker.lastSync
MarkSynced ==
    /\ syncPc = "synced"
    /\ lastSync' = now
    /\ syncPc' = "idle"
    /\ UNCHANGED <<shardVars, DefaultTTL, MaxTTL, syncAlways, now, resp, nops, histVars,
                   mailVars, intBits, shardCount, dispatched, panicked, syncNotify,
                   syncChan, statsPc, statsSeen, inHandler, srvVars, durVars>>

\* Stats reaches worker.Index().Count()
StatsBegin ==
    /\ statsPc = "idle"
    /\ Len(statsSeen) < MaxStatsCalls
    /\ statsPc' = "reading"
    /\ UNCHANGED <<shardVars, DefaultTTL, MaxTTL, syncAlways, now, resp, nops, histVars,
                   mailVars, intBits, shardCount, dispatched, panicked, syncNotify,
                   lastSync, syncChan, syncPc, statsSeen, inHandler, srvVars, durVars>>

\* ... and returns; a count read while a handler changes the btree is any
\* count the handler can leave or pass through
StatsEnd ==
    /\ statsPc = "reading"
    /\ \E n \in IF inHandler = Idle THEN {IndexCount(W)}
                ELSE {m \in (IndexCount(W) - 1) .. (IndexCount(W) + 1) : m >= 0} :
          statsSeen' = Append(statsSeen, StatsOf(n).curr_items)
    /\ statsPc' = "idle"
    /\ UNCHANGED <<shardVars, DefaultTTL, MaxTTL, syncAlways, now, resp, nops, histVars,
                   mailVars, intBits, shardCount, dispatched, panicked, syncNotify,
                   lastSync, syncChan, syncPc, inHandler, srvVars, durVars>>

NextShared ==
    \/ SharedSet \/ SharedDelete \/ SharedTick \/ Finish
    \/ SyncRecv \/ MarkSynced \/ StatsBegin \/ StatsEnd
    \/ SyncStop \/ SharedClose \/ SharedExit

SpecShared == InitShared /\ [][NextShared]_vars

\* ... with the scheduler running every goroutine that can take a step, and
\* the cache closed in the end. Finish is enabled exactly when a handler is
\* running and ends it, so weak fairness of Finish is []<>(inHandler = Idle)
SpecSharedFair ==
    /\ SpecShared
    /\ []<>(inHandler = Idle)
    /\ WF_vars(SyncRecv) /\ WF_vars(MarkSynced) /\ WF_vars(StatsEnd)
    /\ WF_vars(SyncStop) /\ WF_vars(SharedClose) /\ WF_vars(SharedExit)

\* ------------------------------------------------------------------------
\* SpecFault: a shard whose disk fails under some requests: two keys set with
\* values of two buckets, read and deleted; the write of the key record or
\* of the data slot of a SET fails, or the read of the tail slot in the
\* compaction of a DELETE.
\* ------------------------------------------------------------------------
MaxFaultOps == 3

FaultSet == nops < MaxFaultOps /\ \E k \in Keys, v \in {ValDigit, ValBig} : Set(k, v, 0, 1)

FaultGet == nops < MaxFaultOps /\ \E k \in Keys : Get(k, 1)

FaultDelete == nops < MaxFaultOps /\ \E k \in Keys : Delete(k, 1)

FaultSetFails ==
    /\ nops < MaxFaultOps
    /\ \E k \in Keys, v \in {ValDigit, ValBig}, failed \in {"WriteKeyRecord", "WriteDataSlot"} :
          Handled("set", k, 0, v, doSetFailing(W, k, v, 0, 0, FALSE, now + 1, failed), now + 1)

FaultDeleteFails ==
    /\ nops < MaxFaultOps
    /\ \E k \in Keys :
          /\ Has(btree, k)
          /\ btree[k].SlotIdx < nextSlotId[btree[k].Bucket] - 1
          /\ Handled("delete", k, 0, << >>, handleDeleteFailing(W, k), now + 1)

NextFault == FaultSet \/ FaultGet \/ FaultDelete \/ FaultSetFails \/ FaultDeleteFails

SpecFault == Init /\ [][NextFault]_vars

\* ------------------------------------------------------------------------
\* The accept loop of Server.Start and the goroutines of handleConnection.

\* the connection limits the model starts with
ConnLimits == {1, 2, 3}

\* the limit check of the accept loop taken as always passing
AdmitAlways(curr, limit) == TRUE

\* Server.Start: a connection is handled unless curr >= s.maxConnections
Admit(curr, limit) == ~(curr >= limit)

InitConn == InitServer({0}, {0}, {FALSE}, {64}, {1}, {FALSE}, ConnLimits)

\* ln.Accept returns connection c, the loop loads the counter and rejects
\* the connection at the limit
AcceptCheck(c) ==
    /\ acceptPc = "accept"
    /\ conns[c] = "new"
    /\ \A d \in ConnIds : d < c => conns[d] # "new"
    /\ \E curr \in {currConns} :
          IF Admit(curr, maxConnections)
          THEN /\ acceptPc' = "add"
               /\ inHand' = c
               /\ conns' = conns
          ELSE /\ conns' = [conns EXCEPT ![c] = "rejected"]
               /\ UNCHANGED <<acceptPc, inHand>>
    /\ UNCHANGED <<shardVars, DefaultTTL, MaxTTL, syncAlways, now, resp, nops, histVars,
                   mailVars, cacheVars, maxConnections, currConns, durVars>>

\* the loop adds one to the counter and starts the goroutine of the connection
AcceptAdd ==
    /\ acceptPc = "add"
    /\ currConns' = currConns + 1
    /\ conns' = [conns EXCEPT ![inHand] = "handling"]
    /\ acceptPc' = "accept"
    /\ inHand' = 0
    /\ UNCHANGED <<shardVars, DefaultTTL, MaxTTL, syncAlways, now, resp, nops, histVars,
                   mailVars, cacheVars, maxConnections, durVars>>

\* handleConnection returns: its deferred function closes the connection ...
ConnClose(c) ==
    /\ conns[c] = "handling"
    /\ conns' = [conns EXCEPT ![c] = "closed"]
    /\ UNCHANGED <<shardVars, DefaultTTL, MaxTTL, syncAlways, now, resp, nops, histVars,
                   mailVars, cacheVars, maxConnections, currConns, acceptPc, inHand, durVars>>

\* ... and then takes one off the counter
ConnDone(c) ==
    /\ conns[c] = "closed"
    /\ currConns' = currConns - 1
    /\ conns' = [conns EXCEPT ![c] = "done"]
    /\ UNCHANGED <<shardVars, DefaultTTL, MaxTTL, syncAlways, now, resp, nops, histVars,
                   mailVars, cacheVars, maxConnections, acceptPc, inHand, durVars>>

ConnAccept == \E c \in ConnIds : AcceptCheck(c)
ConnReturn == \E c \in ConnIds : ConnClose(c)
ConnCount == \E c \in ConnIds : ConnDone(c)

NextConn == ConnAccept \/ AcceptAdd \/ ConnReturn \/ ConnCount

SpecConn == InitConn /\ [][NextConn]_vars

\* ------------------------------------------------------------------------
\* Properties
\* ------------------------------------------------------------------------
\* what a GET of k handled now would answer
GetView(k) == handleGet(W, k, now).resp

ExpiredNow(k) == Has(btree, k) /\ btree[k].Expiry > 0 /\ btree[k].Expiry <= UnixMilli(now)

\* C1: after Set(k, v, ttl) returned cas c, and until k expires or is
\* mutated again, a Get(k) returns exactly (v, c).
C1_SetGetRoundTrip ==
    \A k \in AllKeys :
        (expect[k].tag = "set" /\ ~ExpiredNow(k))
            => GetView(k) = OkResp(expect[k].v, expect[k].c)

\* C2: after Get(k) returned (v, c), requests on other keys only (whatever
\* they move or compact) leave Get(k) returning (v, c) while k is unexpired.
C2_OtherKeysLeaveValue ==
    \A k \in AllKeys :
        (expect[k].tag = "get" /\ ~ExpiredNow(k))
            => GetView(k) = OkResp(expect[k].v, expect[k].c)

\* the step is a request handled with success
Succeeded(ops) == nops' = nops + 1 /\ resp'.op \in ops /\ resp'.Err = ""

\* C3: a CAS of k with witness w succeeds only if w is the cas returned by
\* the latest value mutation of k, and no earlier CAS of k already
\* succeeded with the same witness.
C3_CasExclusion ==
    [][Succeeded({"cas"}) =>
          /\ resp'.arg = lastMut[resp'.key]
          /\ resp'.arg # casWon[resp'.key]]_vars

\* C4: every successful mutation returns a cas strictly greater than every
\* cas the shard returned before.
C4_CasStrictlyIncreasing ==
    [][Succeeded(ValueMutations) => resp'.Cas > maxCas]_vars

\* C5: across Close and reopen, Get(k) of every unexpired key returns the
\* value it returned just before Close, and absent keys stay NotFound.
C5_ReopenKeepsValues ==
    [][(nops' = nops + 1 /\ resp'.op = "reopen") =>
          \A k \in AllKeys :
              LET before == handleGet(W, k, now').resp
              IN /\ before.Err = "" => (GetView(k)').Value = before.Value
                                       /\ (GetView(k)').Err = ""
                 /\ ~Has(btree, k) => (GetView(k)').Err = "ErrKeyNotFound"]_vars

Unexpired(entry, t) == ~(entry.Expiry > 0 /\ entry.Expiry <= UnixMilli(t))

\* C6: reopening rebuilds an index equal, field by field, to the index
\* before Close without the entries whose expiry has elapsed.
C6_RecoveryFidelity ==
    [][(nops' = nops + 1 /\ resp'.op = "reopen") =>
          btree' = [k \in {x \in DOMAIN btree : Unexpired(btree[x], now')} |-> btree[k]]]_vars

FailedPrecondition(r) ==
    \/ r.op = "add" /\ r.Err = "ErrKeyExists"
    \/ r.op = "replace" /\ r.Err = "ErrKeyNotFound"
    \/ r.op = "cas" /\ r.Err \in {"ErrKeyNotFound", "ErrCasMismatch"}
    \/ /\ r.op \in {"set", "add", "replace", "cas", "append", "prepend"}
       /\ r.Err \in {"ErrKeyTooLarge", "ErrValueTooLarge"}

\* C7: a request that fails its precondition or validation leaves the
\* index, the counters and the files exactly as they were.
C7_FailedRequestChangesNothing ==
    [][(nops' = nops + 1 /\ FailedPrecondition(resp')) => UNCHANGED shardVars]_vars

\* a SET of a present key was refused for its value size
C7_Witness ==
    /\ resp.op = "set" /\ resp.Err = "ErrValueTooLarge"
    /\ Has(btree, resp.key) /\ btree[resp.key].Bucket = 0 /\ nextSlotId[0] = 2

\* C8: a Get(k) handled 100 ms or more after the ttl of the latest
\* Set(k, v, ttl > 0) ran out (no write or touch of k since) answers
\* NotFound and leaves neither an index entry nor a key record of k.
C8_ExpiredGetDestroys ==
    [][(/\ nops' = nops + 1
        /\ resp'.op = "get"
        /\ deadline[resp'.key] > 0
        /\ now' >= deadline[resp'.key] + TickInterval)
       => /\ resp'.Err = "ErrKeyNotFound"
          /\ ~Has(btree', resp'.key)
          /\ \A i \in 1 .. Len(keysFile') : ExtractKey(keysFile'[i].Key) # resp'.key]_vars

\* C9: after a TTL tick no entry whose expiry has elapsed is left in the
\* index.
C9_TickRemovesExpired ==
    resp.op = "tick" => \A k \in DOMAIN btree : ~ExpiredNow(k)

LiveIn(b) == {k \in DOMAIN btree : btree[k].Bucket = b}

\* C10: the key file holds exactly one record per live index entry, and
\* each data file exactly one slot per live entry of its bucket; the
\* counters equal these counts.
C10_FilesCompact ==
    /\ KeyCount(W) = Cardinality(DOMAIN btree)
    /\ KeyCount(W) = nextKeyId
    /\ \A b \in Buckets :
          /\ SlotCount(W, b) = Cardinality(LiveIn(b))
          /\ SlotCount(W, b) = nextSlotId[b]

\* what a DELETE of k handled now would answer
DeleteView(k) == handleDelete(W, k).resp

\* C11: a DELETE answers Ok exactly when the key is in the index, and a
\* DELETE of the same key straight after it would answer NotFound; a DELETE
\* answered NotFound leaves the index, the counters and the files as they
\* were.
C11_DeleteIdempotent ==
    [][(nops' = nops + 1 /\ resp'.op = "delete") =>
          \A k \in AllKeys :
              resp'.key = k =>
                  /\ (resp'.Err = "") = Has(btree, k)
                  /\ resp'.Err \in {"", "ErrKeyNotFound"}
                  /\ (DeleteView(k)').Err = "ErrKeyNotFound"
                  /\ resp'.Err = "ErrKeyNotFound" => UNCHANGED shardVars]_vars

\* a DELETE removed the key of key record 0 while another key stays stored
C11_Witness ==
    /\ resp.op = "delete" /\ resp.Err = ""
    /\ ~Has(btree, resp.key)
    /\ Cardinality(DOMAIN btree) = 1 /\ nextKeyId = 1
    /\ DeleteView(resp.key).Err = "ErrKeyNotFound"

\* the requests that take a TTL
TTLOps == {"set", "add", "replace", "cas", "touch"}

\* C12: with MaxTTL > 0, the expiry a SET, ADD, REPLACE, CAS or TOUCH
\* stores is no later than the time of the request plus MaxTTL, in the
\* index and in the key record; and a SET, ADD, REPLACE or CAS on a worker
\* with a DefaultTTL stores an expiry.
C12_MaxTTLCaps ==
    [][(nops' = nops + 1 /\ resp'.op \in TTLOps /\ resp'.Err = "" /\ MaxTTL > 0) =>
          \A k \in AllKeys :
              resp'.key = k =>
                  /\ Has(btree', k)
                  /\ btree'[k].Expiry <= UnixMilli(now' + MaxTTL)
                  /\ keysFile'[btree'[k].KeyId + 1].Expiry = btree'[k].Expiry
                  /\ (DefaultTTL > 0 /\ resp'.op # "touch") => btree'[k].Expiry > 0]_vars

\* --- decimal arithmetic on digit lists (most significant digit first) ---
\* the bytes of a byte string, one by one
RECURSIVE Expand(_)
Expand(v) ==
    IF v = << >> THEN << >>
    ELSE [i \in 1 .. Head(v)[2] |-> Head(v)[1]] \o Expand(Tail(v))

IsDecimal(v) == v # << >> /\ \A i \in 1 .. Len(v) : v[i][1] \in 48 .. 57

DigitsOf(v) == [i \in 1 .. Len(Expand(v)) |-> Expand(v)[i] - 48]

RECURSIVE StripZeros(_)
StripZeros(d) == IF Len(d) > 1 /\ Head(d) = 0 THEN StripZeros(Tail(d)) ELSE d

PadLeft(d, n) == [i \in 1 .. (n - Len(d)) |-> 0] \o d

\* a < b for digit lists without leading zeros
RECURSIVE DecLess(_, _)
DecLess(a, b) ==
    IF Len(a) # Len(b) THEN Len(a) < Len(b)
    ELSE IF a = << >> THEN FALSE
    ELSE IF Head(a) # Head(b) THEN Head(a) < Head(b)
    ELSE DecLess(Tail(a), Tail(b))

\* the carry into digit i of a + b (lists of equal length)
RECURSIVE DecCarry(_, _, _)
DecCarry(a, b, i) ==
    IF i >= Len(a) THEN 0 ELSE (a[i + 1] + b[i + 1] + DecCarry(a, b, i + 1)) \div 10

DecAdd(a, b) ==
    LET n == (IF Len(a) > Len(b) THEN Len(a) ELSE Len(b)) + 1
        x == PadLeft(a, n)
        y == PadLeft(b, n)
    IN StripZeros([i \in 1 .. n |-> (x[i] + y[i] + DecCarry(x, y, i)) % 10])

\* the borrow from digit i of a - b (lists of equal length, a >= b)
RECURSIVE DecBorrow(_, _, _)
DecBorrow(a, b, i) ==
    IF i >= Len(a) THEN 0
    ELSE IF a[i + 1] - b[i + 1] - DecBorrow(a, b, i + 1) < 0 THEN 1 ELSE 0

DecSub(a, b) ==
    LET n == Len(a)
        y == PadLeft(b, n)
    IN StripZeros([i \in 1 .. n |-> (a[i] - y[i] - DecBorrow(a, y, i) + 10) % 10])

\* the stored value denotes a number below 2^64
IsU64Decimal(v) == IsDecimal(v) /\ DecLess(StripZeros(DigitsOf(v)), Two64Dec)

DecOfDelta(u) == (CHOOSE d \in Deltas : d.u = u).dec

\* (v + delta) mod 2^64, and v - delta floored at 0
IncrResult(v, delta) ==
    LET sum == DecAdd(v, delta)
    IN IF DecLess(sum, Two64Dec) THEN sum ELSE DecSub(sum, Two64Dec)

DecrResult(v, delta) == IF DecLess(v, delta) THEN <<0>> ELSE DecSub(v, delta)

\* the value of k in its data slot
Stored(k) == ReadDataSlot(W, btree[k].Bucket, btree[k].SlotIdx).data

\* C13: an INCR or DECR of a key that stores a decimal number v < 2^64
\* answers with the digits of (v + delta) mod 2^64, or of v - delta
\* floored at 0, without leading zeros, and a GET then returns them.
C13_IncrDecrArithmetic ==
    [][(/\ nops' = nops + 1
        /\ resp'.op \in {"incr", "decr"}
        /\ Has(btree, resp'.key)
        /\ IsU64Decimal(Stored(resp'.key)))
       => \A k \in AllKeys :
            resp'.key = k =>
              LET v == StripZeros(DigitsOf(Stored(k)))
                  d == DecOfDelta(resp'.arg)
                  want == IF resp'.op = "incr" THEN IncrResult(v, d) ELSE DecrResult(v, d)
              IN /\ resp'.Err = ""
                 /\ resp'.Value = Dec(want)
                 /\ (GetView(k)').Err = ""
                 /\ (GetView(k)').Value = Dec(want)
                 /\ (GetView(k)').Cas = resp'.Cas]_vars

\* 5 + (2^64 - 1) wrapped to 4
C13_Witness ==
    /\ resp.op = "incr" /\ resp.Err = ""
    /\ resp.arg = <<65535, 65535, 65535, 65535>>
    /\ resp.Value = Dec(<<4>>)

\* C14: an INCR or DECR of a key whose stored value is no decimal number
\* below 2^64 answers NotNumeric and leaves the shard as it was.
C14_NotNumeric ==
    [][(/\ nops' = nops + 1
        /\ resp'.op \in {"incr", "decr"}
        /\ Has(btree, resp'.key)
        /\ ~IsU64Decimal(Stored(resp'.key)))
       => /\ resp'.Err = "ErrNotNumeric"
          /\ UNCHANGED shardVars]_vars

\* C15: a SET is refused with ValueTooLarge exactly when its value is
\* larger than 64 MiB; otherwise the value is stored in a bucket at least
\* as large as the value.
C15_SetSizeLimit ==
    [][(nops' = nops + 1 /\ resp'.op = "set" /\ BLen(resp'.key) <= MaxKeySize) =>
          \A k \in AllKeys :
              resp'.key = k =>
                  IF BLen(resp'.req) > MaxBucketSize
                  THEN resp'.Err = "ErrValueTooLarge"
                  ELSE /\ resp'.Err = ""
                       /\ Has(btree', k)
                       /\ bucketSizes(btree'[k].Bucket) >= BLen(resp'.req)
                       /\ btree'[k].Length = BLen(resp'.req)]_vars

\* the records of the expiry heap
HeapMembers(h) == {h.entries[i] : i \in 1 .. Len(h.entries)}

\* C16: a TOUCH of a key in the index changes the expiry of its index entry
\* and of its key record and nothing else of the index, the counters and
\* the files; afterwards the expiry heap holds the key under its new expiry
\* when that is > 0 and not at all when it is 0, the heap records of other
\* keys are as before, and the answer carries the entry's cas.
C16_TouchFrame ==
    [][(nops' = nops + 1 /\ resp'.op = "touch" /\ Has(btree, resp'.key)) =>
          \A k \in AllKeys :
              resp'.key = k =>
                  LET id == btree[k].KeyId
                      e == btree'[k].Expiry
                  IN /\ resp'.Err = ""
                     /\ resp'.Cas = btree[k].Cas
                     /\ (resp'.arg > 0) = (e > 0)
                     /\ btree' = [btree EXCEPT ![k].Expiry = e]
                     /\ keysFile' = [keysFile EXCEPT ![id + 1].Expiry = e]
                     /\ UNCHANGED <<keysTail, dataFiles, keyIdMap, slotIndex,
                                    nextKeyId, nextSlotId>>
                     /\ HeapMembers(expiryHeap') =
                           {x \in HeapMembers(expiryHeap) : x.KeyId # id}
                           \cup (IF e > 0 THEN {[Expiry |-> e, KeyId |-> id]} ELSE {})
                     /\ DOMAIN expiryHeap'.keyIndex =
                           {x.KeyId : x \in HeapMembers(expiryHeap')}]_vars

\* a TOUCH gave a new expiry to a key while another key is in the heap too
C16_Witness ==
    /\ resp.op = "touch" /\ resp.Err = "" /\ resp.arg > 0
    /\ Len(expiryHeap.entries) = 2
    /\ Cardinality(DOMAIN btree) = 2

\* the slots the index holds for key k: those of the slot index and the one
\* of its entry
OwnedSlots(k) ==
    (IF Has(btree, k) THEN {<<btree[k].Bucket, btree[k].SlotIdx>>} ELSE {})
    \cup UNION {{<<b, i>> : i \in {j \in DOMAIN slotIndex[b] : slotIndex[b][j] = k}} :
                   b \in Buckets}

\* C17: an APPEND (PREPEND) to a key whose GET returns v makes GET return
\* v followed by the tail (the head followed by v) under a cas that differs
\* from the one before; when the concatenation belongs in another bucket the
\* key then owns one slot, inside the file of the new bucket, that no other
\* key points to, and the file of the old bucket is one slot shorter.
C17_AppendPrepend ==
    [][(/\ nops' = nops + 1
        /\ resp'.op \in {"append", "prepend"}
        /\ GetView(resp'.key).Err = ""
        /\ BLen(GetView(resp'.key).Value) + BLen(resp'.req) <= bucketSizes(NumBuckets - 1))
       => \A k \in AllKeys :
            resp'.key = k =>
              LET v == GetView(k).Value
                  want == IF resp'.op = "append" THEN BCat(v, resp'.req)
                          ELSE BCat(resp'.req, v)
                  oldB == btree[k].Bucket
                  newB == BucketForSize(BLen(want))
              IN /\ resp'.Err = ""
                 /\ (GetView(k)').Err = ""
                 /\ (GetView(k)').Value = want
                 /\ (GetView(k)').Cas = resp'.Cas
                 /\ resp'.Cas # GetView(k).Cas
                 /\ newB # oldB =>
                       /\ OwnedSlots(k)' = {<<newB, btree'[k].SlotIdx>>}
                       /\ btree'[k].SlotIdx < Len(dataFiles'[newB])
                       /\ \A j \in DOMAIN btree' :
                             (j # k /\ btree'[j].Bucket = newB)
                                 => btree'[j].SlotIdx # btree'[k].SlotIdx
                       /\ Len(dataFiles'[oldB]) = Len(dataFiles[oldB]) - 1]_vars

\* the worker NewWorker constructs over an empty data directory
FreshWorker ==
    [keys |-> << >>, tail |-> 0, data |-> [b \in Buckets |-> << >>],
     btree |-> EmptyMap, keyIdMap |-> EmptyMap,
     slotIndex |-> [b \in Buckets |-> EmptyMap], heap |-> NewExpiryHeap,
     nextKeyId |-> 0, nextSlotId |-> [b \in Buckets |-> 0],
     DefaultTTL |-> DefaultTTL, MaxTTL |-> MaxTTL,
     syncAlways |-> syncAlways, log |-> << >>, trail |-> << >>]

\* C18: when a FLUSH_ALL has been answered the index is empty, the key file
\* and the 16 data files have size 0, nextKeyId and every nextSlotId are 0,
\* a GET of any key answers NotFound, and the worker is in the state of a
\* worker constructed over an empty directory, so that later requests are
\* handled as on a new store.
C18_FlushAllEmpties ==
    resp.op = "flush" =>
        /\ DOMAIN btree = {}
        /\ KeysFileSize(W) = 0
        /\ \A b \in Buckets : SlotCount(W, b) = 0 /\ nextSlotId[b] = 0
        /\ nextKeyId = 0
        /\ \A k \in AllKeys : GetView(k).Err = "ErrKeyNotFound"
        /\ W = FreshWorker

\* a FLUSH_ALL was answered right after a successful write
C18_Witness ==
    /\ resp.op = "flush"
    /\ nops = 2
    /\ maxCas > 0
    /\ DOMAIN btree = {}
    /\ \A b \in Buckets : dataFiles[b] = << >>

\* the ids of the requests the worker handled, in the order it handled them
RECURSIVE HandledIds(_)
HandledIds(log) ==
    IF log = << >> THEN << >>
    ELSE (IF Head(log).kind = "req" THEN <<Head(log).req.id>> ELSE << >>)
         \o HandledIds(Tail(log))

\* the requests and ticks of log applied one after the other to worker w:
\* whether each answer is the logged one, and the worker left
RECURSIVE Replay(_, _)
Replay(w, log) ==
    IF log = << >> THEN [ok |-> TRUE, w |-> w]
    ELSE LET e == Head(log)
         IN IF e.kind = "tick" THEN Replay(cleanupExpired(w, e.t), Tail(log))
            ELSE LET r == handleRequest(w, e.req, e.t)
                 IN IF r.resp = e.resp THEN Replay(Settled(r.w), Tail(log))
                    ELSE [ok |-> FALSE, w |-> w]

\* C19: the worker handles the requests of concurrent clients in the order
\* they entered the mailbox; every answer, and the state of the shard, is
\* the one that handling the same requests and ticks one after the other in
\* that order gives; and a client is handed the answer to its own request.
C19_MailboxOrder ==
    /\ HandledIds(handled) = SubSeq(arrived, 1, Len(HandledIds(handled)))
    /\ Len(HandledIds(handled)) + Len(reqChan) = Len(arrived)
    /\ Replay(FreshWorker, handled).ok
    /\ Replay(FreshWorker, handled).w = W
    /\ \A c \in Clients :
          respChan[c] # << >> =>
              \E i \in 1 .. Len(handled) :
                  /\ handled[i].kind = "req"
                  /\ handled[i].req.id = <<c, sent[c]>>
                  /\ handled[i].resp = respChan[c][1]

\* requests of the two clients wait in the mailbox together after the
\* worker has answered a request and taken a tick
C19_Witness ==
    /\ Len(reqChan) = 2
    /\ reqChan[1].id[1] # reqChan[2].id[1]
    /\ Len(handled) = 2
    /\ handled[1].kind = "req" /\ handled[1].resp.Err = ""
    /\ handled[2].kind = "tick"

\* the request with this id has been handled
Answered(id) ==
    \E i \in 1 .. Len(handled) : handled[i].kind = "req" /\ handled[i].req.id = id

\* C20: a request that was in the mailbox when Close was called is handled
\* and answered before the worker exits and the files are closed, and a
\* client whose request entered the mailbox before Close gets its answer.
C20_CloseDrains ==
    /\ [](worker = "exited" => \A id \in atClose : Answered(id))
    /\ \A c \in Clients :
          (pc[c] = "waiting" /\ stopChan = "open") ~> (pc[c] = "idle")

\* C24: the index and its two reverse maps are inverses of each other:
\* every entry is found under its keyId and under its (bucket, slotIdx), no
\* two entries share a keyId or a (bucket, slotIdx), and every record of a
\* reverse map names an entry that has those coordinates.
C24_IndexBijection ==
    /\ \A k \in DOMAIN btree :
          /\ Has(keyIdMap, btree[k].KeyId) /\ keyIdMap[btree[k].KeyId] = k
          /\ Has(slotIndex[btree[k].Bucket], btree[k].SlotIdx)
          /\ slotIndex[btree[k].Bucket][btree[k].SlotIdx] = k
    /\ \A k1, k2 \in DOMAIN btree :
          k1 # k2 =>
              /\ btree[k1].KeyId # btree[k2].KeyId
              /\ <<btree[k1].Bucket, btree[k1].SlotIdx>>
                    # <<btree[k2].Bucket, btree[k2].SlotIdx>>
    /\ \A id \in DOMAIN keyIdMap :
          Has(btree, keyIdMap[id]) /\ btree[keyIdMap[id]].KeyId = id
    /\ \A b \in Buckets :
          \A i \in DOMAIN slotIndex[b] :
              /\ Has(btree, slotIndex[b][i])
              /\ btree[slotIndex[b][i]].Bucket = b
              /\ btree[slotIndex[b][i]].SlotIdx = i

\* C26: the expiry heap holds one record, under the entry's keyId and with
\* its expiry, for each index entry whose expiry is > 0, and no other record.
C26_HeapMatchesIndex ==
    /\ HeapMembers(expiryHeap) =
          {[Expiry |-> btree[k].Expiry, KeyId |-> btree[k].KeyId] :
              k \in {x \in DOMAIN btree : btree[x].Expiry > 0}}
    /\ Len(expiryHeap.entries) = Cardinality(HeapMembers(expiryHeap))
    /\ DOMAIN expiryHeap.keyIndex = {x.KeyId : x \in HeapMembers(expiryHeap)}

\* C27: every index entry sits in the smallest bucket that holds its value:
\* length <= 2^(10+bucket), and bucket = 0 or length > 2^(9+bucket).
C27_SmallestBucket ==
    \A k \in DOMAIN btree :
        LET b == btree[k].Bucket
            data == ReadDataSlot(W, b, btree[k].SlotIdx)
        IN data.ok =>
              /\ BLen(data.data) <= 2 ^ (10 + b)
              /\ b = 0 \/ BLen(data.data) > 2 ^ (9 + b)

\* C21: in durability mode always, every change the request handled last
\* made to a file (a key record or data slot written, the slotIdx of a moved
\* tail's key record updated, a truncation) was followed, before the answer,
\* by an fsync of that file.
C21_AlwaysSyncs ==
    syncAlways =>
        \A i \in DOMAIN oplog :
            oplog[i].ev # "compactDataSlot" =>
                \E j \in i .. Len(oplog) :
                    /\ oplog[j].ev # "compactDataSlot"
                    /\ oplog[j].file = oplog[i].file
                    /\ oplog[j].synced

\* C30: at every call of compactDataSlot(b, f) no entry of the index has
\* the coordinates (b, f) any more and the slot index has no record for
\* (b, f), whichever request made the call.
C30_CompactAfterRemoval ==
    \A i \in DOMAIN oplog :
        oplog[i].ev = "compactDataSlot" => ~oplog[i].indexed /\ ~oplog[i].mapped


\* C25: after every completed operation, the key record at the keyId of each
\* index entry has the entry's cas, expiry, bucket, slotIdx, key length and
\* key bytes
C25_KeyRecordMatchesIndex ==
    \A k \in DOMAIN btree :
        LET entry == btree[k]
            r == ReadKeyRecord(W, entry.KeyId)
        IN /\ r.ok
           /\ r.rec.Cas = entry.Cas
           /\ r.rec.Expiry = entry.Expiry
           /\ r.rec.Bucket = entry.Bucket
           /\ r.rec.SlotIdx = entry.SlotIdx
           /\ r.rec.KeyLen = BLen(entry.Key)
           /\ ExtractKey(r.rec.Key) = entry.Key


RECURSIVE DecValue(_)
DecValue(digits) ==
    IF digits = << >> THEN 0
    ELSE 10 * DecValue(SubSeq(digits, 1, Len(digits) - 1)) + digits[Len(digits)]

\* the number a Stats result reports as curr_items
CurrItems(stats) == DecValue(DigitsOf(stats.curr_items))

StoreOps == {"set", "add", "replace", "cas", "incr", "decr", "append", "prepend", "touch"}

\* C23: curr_items is the number of distinct keys the index holds; a
\* successful store of a key the index did not hold raises it by one, a
\* successful store, arithmetic, append, prepend or touch of a key it holds
\* leaves it and the key's keyId unchanged, a successful delete lowers it by one
C23_CurrItems ==
    /\ [](CurrItems(Stats) = Cardinality({k \in AllKeys : Has(btree, k)}))
    /\ [][resp'.Err = "" =>
            \E k \in {resp'.key}, n \in {IndexCount(W)'} :
                LET before == CurrItems(Stats)
                    after == CurrItems(StatsOf(n))
                IN /\ (resp'.op \in StoreOps /\ ~Has(btree, k)) => after = before + 1
                   /\ (resp'.op \in StoreOps /\ Has(btree, k) /\ Has(btree', k)) =>
                           /\ after = before
                           /\ btree'[k].KeyId = btree[k].KeyId
                   /\ resp'.op = "delete" => after = before - 1]_vars

\* two keys were stored and one of them deleted: curr_items is "1"
C23_Witness ==
    /\ resp.op = "delete" /\ resp.Err = ""
    /\ Stats.curr_items = Str(49, 1)
    /\ nextKeyId = 1


\* C22: every single-key operation is sent to a shard index in [0, N), and
\* two operations on the same key are sent to the same shard
C22_ShardFor ==
    /\ ~panicked
    /\ \A i \in DOMAIN dispatched :
          /\ dispatched[i].shardIdx \in 0 .. (shardCount - 1)
          /\ \A j \in DOMAIN dispatched :
                dispatched[i].Key = dispatched[j].Key
                    => dispatched[i].shardIdx = dispatched[j].shardIdx

\* the hash of "a" is 0xE40C292C and that of "foo" 0xA9F37ED7
FnvVectors ==
    /\ Sum32(KeyA) = <<10540, 58380>>
    /\ Sum32(Bytes(<<102, 111, 111>>)) = <<32471, 43507>>


\* C28: while the goroutine of Worker.run is in a handler, Stats is not
\* reading the shard's index and the sync goroutine is not writing lastSync
C28_WorkerOwnsShardState ==
    (worker = "running" /\ inHandler # Idle) =>
        /\ statsPc # "reading"
        /\ syncPc # "synced"


\* C29: in the index recovered after a crash inside a request that compacts,
\* every entry's slotIdx is below the slot count of its bucket file
C29_CrashLeavesNoDanglingSlot ==
    resp.op = "crash" =>
        \A k \in DOMAIN btree : btree[k].SlotIdx < SlotCount(W, btree[k].Bucket)


\* C40: Storage.UpdateSlotIdx(keyId, s) on the key file of any reachable
\* state makes ReadKeyRecord(keyId) return SlotIdx = s with every other
\* field of the record as before, changes no other record and leaves the
\* size of the file as it was
C40_UpdateSlotIdxFrame ==
    \A keyId \in 0 .. (KeyCount(W) - 1) :
        \A s \in 0 .. 2 :
            LET w2 == StorageUpdateSlotIdx(W, keyId, s)
                old == ReadKeyRecord(W, keyId).rec
                new == ReadKeyRecord(w2, keyId)
            IN /\ new.ok
               /\ new.rec = [old EXCEPT !.SlotIdx = s]
               /\ KeysFileSize(w2) = KeysFileSize(W)
               /\ \A other \in 0 .. (KeyCount(W) - 1) :
                     other # keyId => ReadKeyRecord(w2, other) = ReadKeyRecord(W, other)


\* what compactDataSlot(b, f) must have done between w1 and w2 for the
\* entry owner of the tail slot t; onDisk says whether the key record is
\* looked at too
DataSlotMoved(w1, w2, b, f, t, owner, onDisk) ==
    /\ ReadDataSlot(w2, b, f) = ReadDataSlot(w1, b, t)
    /\ w2.btree[owner.Key].SlotIdx = f
    /\ Has(w2.slotIndex[b], f) /\ w2.slotIndex[b][f] = owner.Key
    /\ ~Has(w2.slotIndex[b], t)
    /\ onDisk => ReadKeyRecord(w2, owner.KeyId).rec.SlotIdx = f
    /\ w2.nextSlotId[b] = w1.nextSlotId[b] - 1
    /\ SlotCount(w2, b) = SlotCount(w1, b) - 1
    /\ \A other \in DOMAIN w1.btree :
          other # owner.Key => Has(w2.btree, other) /\ w2.btree[other] = w1.btree[other]

\* deleteEntry's call of compactDataSlot for the entry of key k, when the
\* entry is not in the tail slot and the tail slot has an owner
DataSlotCompacted(k, onDisk) ==
    LET entry == btree[k]
        b == entry.Bucket
        f == entry.SlotIdx
        t == nextSlotId[b] - 1
        w1 == IndexDelete(W, k)
        owner == GetByBucketSlot(w1, b, t)
    IN (f < t /\ ~IsNil(owner)) =>
            DataSlotMoved(w1, compactDataSlot(w1, b, f), b, f, t, owner, onDisk)

\* C31: compactDataSlot(b, f) with f below the tail slot t moves the content
\* of t to f, gives the owner of t slotIdx f in the index, in the reverse map
\* and in its key record, lowers nextSlotId[b] and the slot count of the file
\* by one and moves no other entry
C31_CompactDataSlot == \A k \in DOMAIN btree : DataSlotCompacted(k, TRUE)


\* what compactKeySlot(f) must have done between worker w1 and the state
\* after the request for the entry owner of the tail record t
KeySlotMoved(w1, f, t, owner) ==
    /\ f < Len(keysFile') /\ keysFile'[f + 1] = ReadKeyRecord(w1, t).rec
    /\ btree'[owner.Key] = [owner EXCEPT !.KeyId = f]
    /\ Has(keyIdMap', f) /\ keyIdMap'[f] = owner.Key
    /\ ~Has(keyIdMap', t)
    /\ ~Has(expiryHeap'.keyIndex, t)
    /\ \A i \in DOMAIN expiryHeap'.entries : expiryHeap'.entries[i].KeyId # t
    /\ IF Has(w1.heap.keyIndex, t)
       THEN LET p == w1.heap.keyIndex[t]
            IN /\ Has(expiryHeap'.keyIndex, f) /\ expiryHeap'.keyIndex[f] = p
               /\ expiryHeap'.entries[p + 1] = [w1.heap.entries[p + 1] EXCEPT !.KeyId = f]
       ELSE ~Has(expiryHeap'.keyIndex, f)
    /\ nextKeyId' = w1.nextKeyId - 1
    /\ Len(keysFile') = KeyCount(w1) - 1

\* C32: when a DELETE removes an entry whose key record f is below the tail
\* record t, compactKeySlot makes record f the former record t, gives the
\* owner of t keyId f in the index, in the keyId map and in the expiry heap
\* (same position, same expiry), and lowers nextKeyId and the record count
\* of the key file by one
C32_CompactKeySlot ==
    [][(resp'.op = "delete" /\ resp'.Err = "") =>
          \E k \in {resp'.key} :
             LET entry == btree[k]
                 w1 == compactDataSlot(IndexDelete(W, k), entry.Bucket, entry.SlotIdx)
                 f == entry.KeyId
                 t == w1.nextKeyId - 1
                 owner == GetByKeyId(w1, t)
             IN (f < t /\ ~IsNil(owner)) => KeySlotMoved(w1, f, t, owner)]_vars

\* a DELETE moved the key record of the one entry left, which has an expiry
\* and is in the heap under keyId 0
C32_Witness ==
    /\ resp.op = "delete" /\ resp.Err = ""
    /\ \E i \in DOMAIN oplog : oplog[i].ev = "WriteKeyRecord"
    /\ Cardinality(DOMAIN btree) = 1
    /\ \A k \in DOMAIN btree :
          /\ btree[k].KeyId = 0 /\ btree[k].Expiry > 0
          /\ Has(expiryHeap.keyIndex, 0)


\* the expiry has not elapsed at millisecond ms
NotElapsed(expiry, ms) == expiry = 0 \/ expiry > ms

\* C33: a TTL tick leaves every index entry whose expiry is 0 or later than
\* now as it was and a GET of it answering as before; the tick takes from
\* the heap exactly the records whose expiry has elapsed, so the root it
\* stops at is absent or unexpired and it removed no more records than the
\* heap held; the files and counters are untouched
C33_TickSparesUnexpired ==
    [][resp'.op = "tick" =>
          \E t \in {now'}, ms \in {UnixMilli(now')}, after \in {W'} :
             /\ \A k \in DOMAIN btree :
                   NotElapsed(btree[k].Expiry, ms) =>
                       /\ Has(after.btree, k) /\ after.btree[k] = btree[k]
                       /\ handleGet(after, k, t).resp = handleGet(W, k, t).resp
             /\ HeapMembers(expiryHeap') =
                    {x \in HeapMembers(expiryHeap) : NotElapsed(x.Expiry, ms)}
             /\ Len(expiryHeap'.entries) <= Len(expiryHeap.entries)
             /\ PeekMin(expiryHeap').nil \/ PeekMin(expiryHeap').Expiry > ms
             /\ UNCHANGED <<keysFile, keysTail, dataFiles, nextKeyId, nextSlotId>>]_vars

\* a tick found one entry expired and one not: the first lost its heap
\* record, the second kept it and is readable
C33_Witness ==
    /\ resp.op = "tick"
    /\ \E k1, k2 \in DOMAIN btree :
          /\ ExpiredNow(k1) /\ ~Has(expiryHeap.keyIndex, btree[k1].KeyId)
          /\ btree[k2].Expiry > UnixMilli(now)
          /\ Has(expiryHeap.keyIndex, btree[k2].KeyId)
          /\ GetView(k2).Err = ""


\* C34: the expiry heap is a min-heap on expiry with PeekMin a record of the
\* smallest expiry, no keyId is in two records, and the position map holds
\* exactly the keyIds of the records, each with the position of its record
C34_HeapValid ==
    LET es == expiryHeap.entries
    IN /\ \A p \in 1 .. (Len(es) - 1) : es[((p - 1) \div 2) + 1].Expiry <= es[p + 1].Expiry
       /\ \A x \in HeapMembers(expiryHeap) :
             ~PeekMin(expiryHeap).nil /\ PeekMin(expiryHeap).Expiry <= x.Expiry
       /\ \A i, j \in DOMAIN es : es[i].KeyId = es[j].KeyId => i = j
       /\ DOMAIN expiryHeap.keyIndex = {es[i].KeyId : i \in DOMAIN es}
       /\ \A i \in DOMAIN es : expiryHeap.keyIndex[es[i].KeyId] = i - 1

\* UpdateKeyId re-keyed a record below the root of a heap of three or more
C34_Witness ==
    /\ resp.op = "UpdateKeyId"
    /\ Len(expiryHeap.entries) >= 3
    /\ Has(expiryHeap.keyIndex, resp.arg)
    /\ expiryHeap.keyIndex[resp.arg] > 0


\* C38: a request for a key whose index entry has an expiry that elapsed by
\* the time of the request finds the key absent: ADD succeeds, and REPLACE,
\* CAS, TOUCH, INCR, DECR, APPEND and PREPEND answer ErrKeyNotFound
C38_ExpiredIsAbsent ==
    [][\A k \in DOMAIN btree :
          (resp'.key = k /\ nops' = nops + 1 /\ ~NotElapsed(btree[k].Expiry, UnixMilli(now'))) =>
              /\ resp'.op = "add" => resp'.Err = ""
              /\ resp'.op \in {"replace", "cas", "touch", "incr", "decr", "append", "prepend"}
                    => resp'.Err = "ErrKeyNotFound"]_vars


\* C35: the worker is never blocked in the send of a reply; each request it
\* takes is the oldest of the mailbox, is handled to its end at once, and its
\* answer is the one message ever put on the request's reply channel, whether
\* or not the caller is receiving; no request is handled twice
C35_OneReplyNeverBlocks ==
    /\ [](worker # "blocked")
    /\ [](\A i, j \in DOMAIN handled :
             (handled[i].kind = "req" /\ handled[j].kind = "req"
              /\ handled[i].req.id = handled[j].req.id) => i = j)
    /\ [][(Len(handled') > Len(handled) /\ handled'[Len(handled')].kind = "req") =>
             \E h \in {handled'[Len(handled')]}, t \in {now'} :
                /\ reqChan # << >> /\ h.req = Head(reqChan) /\ reqChan' = Tail(reqChan)
                /\ h.resp = handleRequest(W, h.req, t).resp
                /\ respChan[h.req.id[1]] = << >>
                /\ respChan' = [respChan EXCEPT ![h.req.id[1]] = <<h.resp>>]
                /\ pc' = pc]_vars

\* the reply to one client lies in its channel, not yet received, while the
\* worker has gone on and handled the request of the other client
C35_Witness ==
    /\ Len(handled) >= 2
    /\ handled[Len(handled)].kind = "req"
    /\ \E c \in Clients :
          /\ pc[c] = "waiting" /\ respChan[c] # << >>
          /\ handled[Len(handled)].req.id[1] # c
          /\ \E i \in 1 .. (Len(handled) - 1) :
                handled[i].kind = "req" /\ handled[i].req.id = <<c, sent[c]>>


\* the connections whose handler holds them open
Handling == {c \in ConnIds : conns[c] = "handling"}

\* C36: no more than maxConnections connections are handled at a time, the
\* counter is never negative and counts the handlers that have not finished,
\* and it is zero when every accepted connection's handler has finished
C36_ConnectionLimit ==
    /\ Cardinality(Handling) <= maxConnections
    /\ currConns >= 0
    /\ currConns <= maxConnections
    /\ currConns = Cardinality({c \in ConnIds : conns[c] \in {"handling", "closed"}})
    /\ (acceptPc = "accept" /\ \A c \in ConnIds : conns[c] \in {"new", "rejected", "done"})
          => currConns = 0

\* the limit is reached with a connection rejected and another finished,
\* while the accept loop holds a connection between its check and its add
C36_Witness ==
    /\ \E c \in ConnIds : conns[c] = "rejected"
    /\ \E c \in ConnIds : conns[c] = "done"
    /\ acceptPc = "add"
    /\ currConns + 1 = maxConnections
    /\ maxConnections > 1


\* C37: with periodic sync, an acknowledged mutation of the shard is in the
\* end followed by an fsync of the shard's files
C37_MutationIsSynced == (syncNotify /\ unsynced) ~> ~unsynced

\* ... and the same of the mutations acknowledged a full syncInterval or
\* more after the last recorded sync, whose handler did notify
C37_NotifiedIsSynced ==
    (syncNotify /\ unsynced /\ syncChan # << >> /\ storageOpen /\ syncPc # "stopped")
        ~> (~unsynced \/ syncPc = "stopped" \/ ~storageOpen)


\* C39: after a SET whose write of the key record or of the data slot
\* failed, the caller has the error, nextKeyId and every nextSlotId equal
\* the record and slot counts of the files, and every index entry points to
\* a slot inside its data file
C39_FailedSetKeepsCounts ==
    (resp.op = "set" /\ resp.Err = ErrIO) =>
        /\ KeyCount(W) = nextKeyId
        /\ \A b \in Buckets : SlotCount(W, b) = nextSlotId[b]
        /\ \A k \in DOMAIN btree : btree[k].SlotIdx < SlotCount(W, btree[k].Bucket)

\* ... and a DELETE whose compaction could not read the tail slot returns
\* an error to its caller
C39_FailedCompactionIsReported ==
    \A k \in DOMAIN btree :
       btree[k].SlotIdx < nextSlotId[btree[k].Bucket] - 1
          => handleDeleteFailing(W, k).resp.Err # ""

====
